---- MODULE Spec2Model ----
(***************************************************************************)
(* A model of pyperclipfix (src/src/pyperclipfix/__init__.py): the         *)
(* clipboard backend resolution procedure, the process-wide copy/paste     *)
(* dispatch state, the helper-process backends and the native Windows      *)
(* backend with its window and clipboard-open scopes.                      *)
(*                                                                         *)
(* Text is a sequence of one-character strings; bytes are sequences of     *)
(* integers 0..255.                                                        *)
(***************************************************************************)
EXTENDS Integers, Sequences, FiniteSets, TLC

(***************************************************************************)
(* Strings of the environment, as character sequences, so that lower() and *)
(* the substring test `x in y` are computed rather than assumed.           *)
(***************************************************************************)
NoneVal == "<None>"

Chars(s) ==
    CASE s = "" -> << >>
      [] s = "CYGWIN_NT-6.1" -> <<"C","Y","G","W","I","N","_","N","T","-","6",".","1">>
      [] s = "Windows" -> <<"W","i","n","d","o","w","s">>
      [] s = "Linux" -> <<"L","i","n","u","x">>
      [] s = "Darwin" -> <<"D","a","r","w","i","n">>
      [] s = "FreeBSD" -> <<"F","r","e","e","B","S","D">>
      [] s = "cygwin" -> <<"c","y","g","w","i","n">>
      [] s = "microsoft" -> <<"m","i","c","r","o","s","o","f","t">>
      [] s = "gnome" -> <<"g","n","o","m","e">>
      [] s = "kde" -> <<"k","d","e">>
      [] s = "ubuntu:GNOME" -> <<"u","b","u","n","t","u",":","G","N","O","M","E">>
      [] s = "KDE" -> <<"K","D","E">>
      [] s = "XFCE" -> <<"X","F","C","E">>
      [] s = "5.15-generic" -> <<"5",".","1","5","-","g","e","n","e","r","i","c">>
      [] s = "4.4.0-Microsoft" -> <<"4",".","4",".","0","-","M","i","c","r","o","s","o","f","t">>
      [] s = "wayland-0" -> <<"w","a","y","l","a","n","d","-","0">>
      [] s = ":0" -> <<":","0">>

\* str.lower() on one character.
LowerChar(c) ==
    CASE c = "C" -> "c" [] c = "Y" -> "y" [] c = "G" -> "g" [] c = "W" -> "w"
      [] c = "I" -> "i" [] c = "N" -> "n" [] c = "T" -> "t" [] c = "L" -> "l"
      [] c = "D" -> "d" [] c = "F" -> "f" [] c = "B" -> "b" [] c = "S" -> "s"
      [] c = "O" -> "o" [] c = "M" -> "m" [] c = "E" -> "e" [] c = "K" -> "k"
      [] c = "X" -> "x"
      [] OTHER -> c

Lower(s) == [i \in 1..Len(s) |-> LowerChar(s[i])]

\* Python's `sub in s` on strings.
Contains(s, sub) ==
    \E i \in 0..(Len(s) - Len(sub)) : SubSeq(s, i + 1, i + Len(sub)) = sub

\* Python truthiness of an os.getenv / os.environ.get result.
Truthy(v) == v # NoneVal /\ v # ""

(***************************************************************************)
(* The environment snapshot read by determine_clipboard.                   *)
(***************************************************************************)
Executables == {"gpaste-client", "klipper", "qdbus", "wl-copy", "xsel", "xclip"}

\* platform.system() with the os.name the interpreter has there, the files
\* /dev/clipboard and /proc/version, and the pyobjc imports.  /dev/clipboard
\* exists on Cygwin only; Foundation/AppKit are importable on macOS only.
PlatformParts ==
    [system : {"CYGWIN_NT-6.1"}, os_name : {"posix"}, dev_clipboard : BOOLEAN,
     proc_version : {NoneVal, "5.15-generic", "4.4.0-Microsoft"},
     Foundation : {FALSE}, AppKit : {FALSE}]
    \cup
    [system : {"Windows"}, os_name : {"nt"}, dev_clipboard : {FALSE},
     proc_version : {NoneVal}, Foundation : {FALSE}, AppKit : {FALSE}]
    \cup
    [system : {"Linux"}, os_name : {"posix"}, dev_clipboard : {FALSE},
     proc_version : {NoneVal, "5.15-generic", "4.4.0-Microsoft"},
     Foundation : {FALSE}, AppKit : {FALSE}]
    \cup
    [system : {"Darwin"}, os_name : {"posix"}, dev_clipboard : {FALSE},
     proc_version : {NoneVal}, Foundation : BOOLEAN, AppKit : BOOLEAN]
    \cup
    [system : {"FreeBSD"}, os_name : {"posix"}, dev_clipboard : {FALSE},
     proc_version : {NoneVal}, Foundation : {FALSE}, AppKit : {FALSE}]

\* qtpy / PyQt5: the import statement succeeds.  Where `import qtpy` fails it
\* fails with ImportError, unless the host's qtpy_exc names another exception
\* that the package raises while it is imported (qtpy 1.x without any Qt
\* binding raises PythonQtError, a RuntimeError); MkEnv gives "none".
SessionParts ==
    [xdg : {NoneVal, "ubuntu:GNOME", "KDE", "XFCE"},
     wayland : {NoneVal, "", "wayland-0"},
     display : {NoneVal, "", ":0"},
     path : SUBSET Executables,
     qtpy : BOOLEAN, PyQt5 : BOOLEAN]

MkEnv(p, s) ==
    [system |-> p.system, os_name |-> p.os_name, dev_clipboard |-> p.dev_clipboard,
     proc_version |-> p.proc_version, Foundation |-> p.Foundation, AppKit |-> p.AppKit,
     xdg |-> s.xdg, wayland |-> s.wayland, display |-> s.display, path |-> s.path,
     qtpy |-> s.qtpy, PyQt5 |-> s.PyQt5, qtpy_exc |-> "none"]

AllEnvs == {MkEnv(p, s) : p \in PlatformParts, s \in SessionParts}

\* shutil.which(name) is not None
_executable_exists(e, name) == name \in e.path

(***************************************************************************)
(* determine_clipboard: the ordered decision procedure.  Each operator     *)
(* below is one stretch of the function, from the given point to its       *)
(* return; t is the sequence of environment probes made so far (files      *)
(* tested, variables read, PATH searches, imports tried), so that what a   *)
(* call did not evaluate can be stated.  The result is the name under      *)
(* which set_clipboard knows the initializer that was called.              *)
(***************************************************************************)
Ret(b, t) == [backend |-> b, probes |-> t, exc |-> "none"]

\* an exception that leaves determine_clipboard: no initializer was called
Raise(x, t) == [backend |-> "none", probes |-> t, exc |-> x]

\* lines 564-580: qtpy, then PyQt5, then init_no_clipboard.  Only an
\* ImportError is caught (lines 570, 577).
determine_clipboard_qt(e, t) ==
    IF e.qtpy THEN Ret("qt", Append(t, "import:qtpy"))
    ELSE IF e.qtpy_exc # "none" THEN Raise(e.qtpy_exc, Append(t, "import:qtpy"))
    ELSE IF e.PyQt5 THEN Ret("qt", t \o <<"import:qtpy", "import:PyQt5">>)
    ELSE Ret("no", t \o <<"import:qtpy", "import:PyQt5">>)

\* lines 557-562 with the two PATH searches exchanged: xclip asked for first.
determine_clipboard_x11_xclip_first(e, t) ==
    LET t1 == Append(t, "getenv:DISPLAY") IN
    IF Truthy(e.display)
    THEN IF _executable_exists(e, "xclip")
         THEN Ret("xclip", Append(t1, "which:xclip"))
         ELSE IF _executable_exists(e, "xsel")
              THEN Ret("xsel", t1 \o <<"which:xclip", "which:xsel">>)
              ELSE determine_clipboard_qt(e, t1 \o <<"which:xclip", "which:xsel">>)
    ELSE determine_clipboard_qt(e, t1)

\* lines 557-562: X11.
determine_clipboard_x11(e, t) ==
    LET t1 == Append(t, "getenv:DISPLAY") IN
    IF Truthy(e.display)
    THEN IF _executable_exists(e, "xsel")
         THEN Ret("xsel", Append(t1, "which:xsel"))
         ELSE IF _executable_exists(e, "xclip")
              THEN Ret("xclip", t1 \o <<"which:xsel", "which:xclip">>)
              ELSE determine_clipboard_qt(e, t1 \o <<"which:xsel", "which:xclip">>)
    ELSE determine_clipboard_qt(e, t1)

\* lines 553-555: Wayland.
determine_clipboard_wayland(e, t) ==
    LET t1 == Append(t, "getenv:WAYLAND_DISPLAY") IN
    IF Truthy(e.wayland)
    THEN IF _executable_exists(e, "wl-copy")
         THEN Ret("wl-clipboard", Append(t1, "which:wl-copy"))
         ELSE determine_clipboard_x11(e, Append(t1, "which:wl-copy"))
    ELSE determine_clipboard_x11(e, t1)

\* lines 540-551: the desktop session (GNOME, then KDE).
determine_clipboard_session(e, t) ==
    LET t1 == Append(t, "getenv:XDG_CURRENT_DESKTOP") IN
    IF e.xdg # NoneVal
    THEN LET low == Lower(Chars(e.xdg))
             isGnome == Contains(low, Chars("gnome"))
             tG == IF isGnome THEN Append(t1, "which:gpaste-client") ELSE t1
         IN  IF isGnome /\ _executable_exists(e, "gpaste-client")
             THEN Ret("gpaste", tG)
             ELSE LET isKde == Contains(low, Chars("kde"))
                      hasKlipper == _executable_exists(e, "klipper")
                      tK == IF ~isKde THEN tG
                            ELSE IF hasKlipper
                                 THEN tG \o <<"which:klipper", "which:qdbus">>
                                 ELSE Append(tG, "which:klipper")
                  IN  IF isKde /\ hasKlipper /\ _executable_exists(e, "qdbus")
                      THEN Ret("klipper", tK)
                      ELSE determine_clipboard_wayland(e, tK)
    ELSE determine_clipboard_wayland(e, t1)

\* lines 530-538: macOS.
determine_clipboard_mac(e, t) ==
    IF e.os_name = "mac" \/ e.system = "Darwin"
    THEN IF ~e.Foundation
         THEN Ret("pbcopy", Append(t, "import:Foundation"))
         ELSE IF ~e.AppKit
              THEN Ret("pbcopy", t \o <<"import:Foundation", "import:AppKit">>)
              ELSE Ret("pyobjc", t \o <<"import:Foundation", "import:AppKit">>)
    ELSE determine_clipboard_session(e, t)

\* lines 525-528 left out: /proc/version is never looked at.
determine_clipboard_wsl_skipped(e, t) == determine_clipboard_mac(e, t)

\* lines 525-528: Linux under the Windows subsystem.
determine_clipboard_wsl(e, t) ==
    IF e.system = "Linux"
    THEN IF e.proc_version # NoneVal
         THEN LET t1 == t \o <<"isfile:/proc/version", "read:/proc/version">> IN
              IF Contains(Lower(Chars(e.proc_version)), Chars("microsoft"))
              THEN Ret("wsl", t1)
              ELSE determine_clipboard_mac(e, t1)
         ELSE determine_clipboard_mac(e, Append(t, "isfile:/proc/version"))
    ELSE determine_clipboard_mac(e, t)

\* lines 508-523: Cygwin (if), Windows (elif), then the rest.
determine_clipboard(e) ==
    IF Contains(Lower(Chars(e.system)), Chars("cygwin"))
    THEN IF e.dev_clipboard
         THEN Ret("dev_clipboard", <<"exists:/dev/clipboard">>)
         ELSE determine_clipboard_wsl(e, <<"exists:/dev/clipboard">>)
    ELSE IF e.os_name = "nt" \/ e.system = "Windows"
         THEN Ret("windows", << >>)
         ELSE determine_clipboard_wsl(e, << >>)

(***************************************************************************)
(* Values, text and bytes.  A value is [type, val]: the Python type's name *)
(* and a payload.  A str payload is the text itself; an int payload is the *)
(* integer; a bool payload is a BOOLEAN; a float payload is <<whole,       *)
(* tenths>> (one fractional digit); any other type carries no payload that *)
(* matters here.                                                           *)
(***************************************************************************)
Str(t) == [type |-> "str", val |-> t]

Digit(d) == <<"0", "1", "2", "3", "4", "5", "6", "7", "8", "9">>[d + 1]

RECURSIVE NatToText(_)
NatToText(n) == IF n < 10 THEN <<Digit(n)>> ELSE Append(NatToText(n \div 10), Digit(n % 10))

\* str(int)
IntToText(n) == IF n < 0 THEN <<"-">> \o NatToText(-n) ELSE NatToText(n)

\* Python's str(value) for the accepted types.
PyStr(v) ==
    CASE v.type = "str" -> v.val
      [] v.type = "int" -> IntToText(v.val)
      [] v.type = "bool" -> IF v.val THEN <<"T", "r", "u", "e">> ELSE <<"F", "a", "l", "s", "e">>
      [] v.type = "float" -> IntToText(v.val[1]) \o <<".">> \o NatToText(v.val[2])

\* lines 97-102.  The result is [exc, text]: exc is "none" or the exception.
acceptedTypes == {"str", "int", "float", "bool"}

\* _stringifyText without the isinstance test
_stringifyText_lenient(v) == [exc |-> "none", text |-> << >>]

_stringifyText(v) ==
    IF v.type \notin acceptedTypes
    THEN [exc |-> "PyperclipException:not " \o v.type, text |-> << >>]
    ELSE [exc |-> "none", text |-> PyStr(v)]

\* Unicode code points of the characters used in texts.
CodePoint(c) ==
    CASE c = "\n" -> 10 [] c = "\r" -> 13 [] c = "-" -> 45 [] c = "." -> 46
      [] c = "0" -> 48 [] c = "1" -> 49 [] c = "2" -> 50 [] c = "3" -> 51
      [] c = "4" -> 52 [] c = "5" -> 53 [] c = "6" -> 54 [] c = "7" -> 55
      [] c = "8" -> 56 [] c = "9" -> 57
      [] c = "F" -> 70 [] c = "T" -> 84
      [] c = "a" -> 97 [] c = "b" -> 98 [] c = "e" -> 101 [] c = "l" -> 108
      [] c = "r" -> 114 [] c = "s" -> 115 [] c = "u" -> 117
      [] c = "e-acute" -> 233 [] c = "grin" -> 128512

Alphabet == {"\n", "\r", "-", ".", "0", "1", "2", "3", "4", "5", "6", "7", "8", "9",
             "F", "T", "a", "b", "e", "l", "r", "s", "u", "e-acute"}

CharOf(cp) == CHOOSE c \in Alphabet : CodePoint(c) = cp

\* str.encode('utf-8'): one byte below U+0080, two bytes below U+0800.
EncodeChar(c) ==
    LET cp == CodePoint(c) IN
    IF cp < 128 THEN <<cp>> ELSE <<192 + (cp \div 64), 128 + (cp % 64)>>

RECURSIVE Encode(_)
Encode(t) == IF t = << >> THEN << >> ELSE EncodeChar(Head(t)) \o Encode(Tail(t))

\* bytes.decode('utf-8') of well-formed input.
RECURSIVE Decode(_)
Decode(b) ==
    IF b = << >> THEN << >>
    ELSE IF b[1] < 128
         THEN <<CharOf(b[1])>> \o Decode(Tail(b))
         ELSE <<CharOf((b[1] - 192) * 64 + (b[2] - 128))>> \o Decode(Tail(Tail(b)))

(***************************************************************************)
(* The state.                                                              *)
(***************************************************************************)
VARIABLES
    env,          \* the environment snapshot of this process (never changes)
    copy,         \* the module global `copy`: the function object bound to it
    paste,        \* the module global `paste`
    initCount,    \* initializer calls made so far; numbers the closures they return
    imported,     \* module globals bound by determine_clipboard's import statements
    clipboard,    \* the system clipboard: NoData or a text
    primary,      \* the primary selection: NoData or a text
    last,         \* the last call made on the module and what it did
    nat,          \* the native operation in progress (copy_windows / paste_windows)
    now,          \* time.time() in ms since the native operation started
    cbHolder,     \* who has the Windows clipboard open: "free", "self", "other"
    liveWindows,  \* window handles this process created and has not destroyed
    wait,         \* the waitForPaste / waitForNewPaste call in progress
    thr           \* per thread: where it is in a rebinding of copy and paste

dispatchVars == <<copy, paste, initCount, imported>>
osVars == <<clipboard, primary>>
natVars == <<nat, now, cbHolder, liveWindows>>
vars == <<env, copy, paste, initCount, imported, clipboard, primary, last, nat, now,
          cbHolder, liveWindows, wait, thr>>

\* A clipboard that holds no text data at all (distinct from the empty text).
NoData == <<"<no data>">>

(***************************************************************************)
(* Function objects.  A closure returned by an initializer is identified   *)
(* by the backend and by the number of the initializer call that made it.  *)
(***************************************************************************)
lazy_load_stub_copy == [role |-> "copy", backend |-> "stub", id |-> 0]
lazy_load_stub_paste == [role |-> "paste", backend |-> "stub", id |-> 0]

Closure(r, b, k) == [role |-> r, backend |-> b, id |-> k]

\* lines 600-613: the keys of clipboard_types.
BackendNames ==
    {"gpaste", "pbcopy", "pyobjc", "qt", "xclip", "xsel", "wl-clipboard", "klipper",
     "windows", "wsl", "dev_clipboard", "no"}

\* A process launch: the argument vector (argBytes is a trailing argument given
\* as bytes), whether through the shell, the bytes written to its standard
\* input (piped tells whether a pipe was given), and whether the executable
\* was found.
Launch(argv, shell, piped, data, found) ==
    [argv |-> argv, argBytes |-> << >>, shell |-> shell, piped |-> piped, stdin |-> data,
     found |-> found]

\* Whether the executable a backend launches exists on this host.  The six
\* probed names are on PATH or not as the snapshot says; wl-paste comes with
\* wl-copy; pbcopy/pbpaste come with macOS; clip.exe and powershell.exe are
\* reachable under the Windows subsystem and on Windows.
HelperExists(e, exe) ==
    CASE exe \in Executables -> exe \in e.path
      [] exe = "wl-paste" -> "wl-copy" \in e.path
      [] exe \in {"pbcopy", "pbpaste"} -> e.system = "Darwin"
      [] exe \in {"clip.exe", "powershell.exe"} ->
            \/ e.os_name = "nt"
            \/ e.system = "Linux" /\ e.proc_version = "4.4.0-Microsoft"
      [] OTHER -> FALSE

(***************************************************************************)
(* Initializers.  Each returns [exc, launches]: the exception it raises    *)
(* ("none" when it returns its pair of closures) and the processes it      *)
(* starts.                                                                 *)
(***************************************************************************)
InitOk == [exc |-> "none", launches |-> << >>]

\* lines 246-271: start_client_gpaste runs two shell commands at init.
init_gpaste_clipboard(e) ==
    [exc |-> "none",
     launches |-> << Launch(<<"gpaste-client daemon-reexec & exit">>, TRUE, FALSE, << >>, TRUE),
                     Launch(<<"gpaste-client start & exit">>, TRUE, FALSE, << >>, TRUE) >>]

\* lines 140-163: QApplication from qtpy, else from PyQt5, else the import
\* error leaves the function.
init_qt_clipboard(e) ==
    IF e.qtpy \/ e.PyQt5 THEN InitOk ELSE [exc |-> "ImportError", launches |-> << >>]

\* lines 346-352: ctypes.windll exists only where os.name is 'nt'.
init_windows_clipboard(e) ==
    IF e.os_name = "nt" THEN InitOk ELSE [exc |-> "AttributeError", launches |-> << >>]

\* lines 600-613 and 619: clipboard_types[name]().  The other initializers
\* only define their two closures.
clipboard_types(name, e) ==
    CASE name = "gpaste" -> init_gpaste_clipboard(e)
      [] name = "qt" -> init_qt_clipboard(e)
      [] name = "windows" -> init_windows_clipboard(e)
      [] OTHER -> InitOk

(***************************************************************************)
(* The backends' copy and paste functions, after Text Coercion.  o is the  *)
(* host's [clipboard, primary]; the result is [exc, ret, launches, o].     *)
(* The helper programs are taken to do what their contract says: a writer  *)
(* stores the text its standard input encodes, a reader prints the stored  *)
(* text (nothing when there is none).                                      *)
(***************************************************************************)
None == [type |-> "NoneType", val |-> << >>]

BufText(buf) == IF buf = NoData THEN << >> ELSE buf

Res(exc, ret, launches, o) == [exc |-> exc, ret |-> ret, launches |-> launches, o |-> o]

\* subprocess.Popen(argv, stdin=PIPE); p.communicate(input=data)
PopenWrite(e, o, argv, data, target) ==
    IF ~HelperExists(e, argv[1])
    THEN Res("FileNotFoundError", None, <<Launch(argv, FALSE, TRUE, << >>, FALSE)>>, o)
    ELSE Res("none", None, <<Launch(argv, FALSE, TRUE, data, TRUE)>>,
             [o EXCEPT ![target] = Decode(data)])

\* subprocess.check_call(argv) of a command that clears the buffer
CheckCallClear(e, o, argv, target) ==
    IF ~HelperExists(e, argv[1])
    THEN Res("FileNotFoundError", None, <<Launch(argv, FALSE, FALSE, << >>, FALSE)>>, o)
    ELSE Res("none", None, <<Launch(argv, FALSE, FALSE, << >>, TRUE)>>,
             [o EXCEPT ![target] = NoData])

\* subprocess.Popen(argv, stdout=PIPE, stderr=PIPE); the bytes on stdout,
\* followed by `tail`; post(bytes) is what the caller returns.
PopenRead(e, o, argv, source, tail) ==
    IF ~HelperExists(e, argv[1])
    THEN [exc |-> "FileNotFoundError", out |-> << >>,
          launches |-> <<Launch(argv, FALSE, FALSE, << >>, FALSE)>>]
    ELSE [exc |-> "none", out |-> Encode(BufText(o[source])) \o tail,
          launches |-> <<Launch(argv, FALSE, FALSE, << >>, TRUE)>>]

Buffer(isPrimary) == IF isPrimary THEN "primary" ELSE "clipboard"

\* lines 106-116
copy_osx_pbcopy(e, o, text) == PopenWrite(e, o, <<"pbcopy", "w">>, Encode(text), "clipboard")

paste_osx_pbcopy(e, o) ==
    LET r == PopenRead(e, o, <<"pbpaste", "r">>, "clipboard", << >>) IN
    Res(r.exc, IF r.exc = "none" THEN Str(Decode(r.out)) ELSE None, r.launches, o)

\* lines 122-135: Foundation and AppKit are module globals that only
\* determine_clipboard's import statements bind.
copy_osx_pyobjc(e, o, text, imp) ==
    IF ~({"Foundation", "AppKit"} \subseteq imp)
    THEN Res("NameError", None, << >>, o)
    ELSE Res("none", None, << >>, [o EXCEPT !.clipboard = text])

paste_osx_pyobjc(e, o, imp) ==
    IF "AppKit" \notin imp
    THEN Res("NameError", None, << >>, o)
    ELSE Res("none", IF o.clipboard = NoData THEN None ELSE Str(o.clipboard), << >>, o)

\* lines 154-161
copy_qt(e, o, text) == Res("none", None, << >>, [o EXCEPT !.clipboard = text])

paste_qt(e, o) == Res("none", Str(BufText(o.clipboard)), << >>, o)

\* lines 167-189
\* copy_xclip with the two selection letters exchanged
copy_xclip_swapped(e, o, text, isPrimary) ==
    LET selection == IF isPrimary THEN "c" ELSE "p" IN
    PopenWrite(e, o, <<"xclip", "-selection", selection>>, Encode(text), Buffer(~isPrimary))

copy_xclip(e, o, text, isPrimary) ==
    LET selection == IF isPrimary THEN "p" ELSE "c" IN
    PopenWrite(e, o, <<"xclip", "-selection", selection>>, Encode(text), Buffer(isPrimary))

paste_xclip(e, o, isPrimary) ==
    LET selection == IF isPrimary THEN "p" ELSE "c"
        r == PopenRead(e, o, <<"xclip", "-selection", selection, "-o">>,
                       Buffer(isPrimary), << >>)
    IN  Res(r.exc, IF r.exc = "none" THEN Str(Decode(r.out)) ELSE None, r.launches, o)

\* lines 195-214
copy_xsel(e, o, text, isPrimary) ==
    LET selection_flag == IF isPrimary THEN "-p" ELSE "-b" IN
    PopenWrite(e, o, <<"xsel", selection_flag, "-i">>, Encode(text), Buffer(isPrimary))

paste_xsel(e, o, isPrimary) ==
    LET selection_flag == IF isPrimary THEN "-p" ELSE "-b"
        r == PopenRead(e, o, <<"xsel", selection_flag, "-o">>, Buffer(isPrimary), << >>)
    IN  Res(r.exc, IF r.exc = "none" THEN Str(Decode(r.out)) ELSE None, r.launches, o)

\* lines 220-241
copy_wl(e, o, text, isPrimary) ==
    LET args == IF isPrimary THEN <<"wl-copy", "-p">> ELSE <<"wl-copy">> IN
    IF text = << >>
    THEN CheckCallClear(e, o, Append(args, "--clear"), Buffer(isPrimary))
    ELSE PopenWrite(e, o, args, Encode(text), Buffer(isPrimary))

paste_wl(e, o, isPrimary) ==
    LET args == IF isPrimary THEN <<"wl-paste", "-n", "-t", "text", "-p">>
                ELSE <<"wl-paste", "-n", "-t", "text">>
        r == PopenRead(e, o, args, Buffer(isPrimary), << >>)
    IN  Res(r.exc, IF r.exc = "none" THEN Str(Decode(r.out)) ELSE None, r.launches, o)

\* str.splitlines()[0] of a non-empty text: up to the first line break.
RECURSIVE FirstLine(_)
FirstLine(t) ==
    IF t = << >> \/ Head(t) \in {"\n", "\r"} THEN << >>
    ELSE <<Head(t)>> \o FirstLine(Tail(t))

\* lines 253-268.  `gpaste-client add` puts the text at the head of the
\* history, `delete-history` empties it; `history --raw` prints the items, the
\* newest first, one per line, and goes through the shell, so a missing
\* executable only yields empty output.
copy_gpaste(e, o, text) ==
    IF text = << >>
    THEN CheckCallClear(e, o, <<"gpaste-client", "delete-history">>, "clipboard")
    ELSE PopenWrite(e, o, <<"gpaste-client", "add">>, Encode(text), "clipboard")

paste_gpaste(e, o) ==
    LET launch == Launch(<<"gpaste-client history --raw & exit">>, TRUE, FALSE, << >>, TRUE)
        stdout == IF HelperExists(e, "gpaste-client") /\ o.clipboard # NoData
                  THEN o.clipboard \o <<"\n">> ELSE << >>
    IN  IF stdout = << >>
        THEN Res("IndexError", None, <<launch>>, o)
        ELSE Res("none", Str(FirstLine(stdout)), <<launch>>, o)

\* lines 275-292: the text goes to qdbus as an argument, not on stdin;
\* getClipboardContents prints the contents and a newline.
copy_klipper(e, o, text) ==
    LET argv == <<"qdbus", "org.kde.klipper", "/klipper", "setClipboardContents">>
        l == [Launch(argv, FALSE, TRUE, << >>, HelperExists(e, "qdbus"))
                 EXCEPT !.argBytes = Encode(text)]
    IN  IF ~HelperExists(e, "qdbus")
        THEN Res("FileNotFoundError", None, <<l>>, o)
        ELSE Res("none", None, <<l>>, [o EXCEPT !.clipboard = Decode(l.argBytes)])

paste_klipper(e, o) ==
    LET r == PopenRead(e, o, <<"qdbus", "org.kde.klipper", "/klipper", "getClipboardContents">>,
                       "clipboard", <<10>>)
        clipboardContents == Decode(r.out)
        n == Len(clipboardContents)
    IN  IF r.exc # "none" THEN Res(r.exc, None, r.launches, o)
        ELSE Res("none",
                 Str(IF n > 0 /\ clipboardContents[n] = "\n"
                     THEN SubSeq(clipboardContents, 1, n - 1) ELSE clipboardContents),
                 r.launches, o)

\* lines 298-314: /dev/clipboard is opened for writing and for reading; a
\* write of no characters leaves the clipboard as it was.
copy_dev_clipboard(e, o, text) ==
    IF ~e.dev_clipboard THEN Res("OSError", None, << >>, o)
    ELSE Res("none", None, << >>, IF text = << >> THEN o ELSE [o EXCEPT !.clipboard = text])

paste_dev_clipboard(e, o) ==
    IF ~e.dev_clipboard THEN Res("OSError", None, << >>, o)
    ELSE Res("none", Str(BufText(o.clipboard)), << >>, o)

\* lines 488-502: Get-Clipboard's output ends with "\r\n", which
\* stdout[:-2] removes before decoding.
copy_wsl(e, o, text) == PopenWrite(e, o, <<"clip.exe">>, Encode(text), "clipboard")

paste_wsl(e, o) ==
    LET r == PopenRead(e, o, <<"powershell.exe", "-noprofile", "-command", "Get-Clipboard">>,
                       "clipboard", <<13, 10>>)
        n == Len(r.out)
    IN  IF r.exc # "none" THEN Res(r.exc, None, r.launches, o)
        ELSE Res("none", Str(Decode(SubSeq(r.out, 1, IF n >= 2 THEN n - 2 ELSE 0))),
                 r.launches, o)

\* lines 61-63 and 319-328: ClipboardUnavailable.__call__ and __bool__.
EXCEPT_MSG == "PyperclipException:Pyperclip could not find a copy/paste mechanism for your system."

\* a ClipboardUnavailable whose call returns None instead of raising
ClipboardUnavailable_call_silent(o) == Res("none", None, << >>, o)

ClipboardUnavailable_call(o) == Res(EXCEPT_MSG, None, << >>, o)

\* bool(f) of a function object: ClipboardUnavailable.__bool__ returns False,
\* every function is true.
Bool(f) == f.backend # "no"

(***************************************************************************)
(* Calling a function object with a value and a selection argument.  sel   *)
(* is "none" when the argument is not passed, "false" / "true" when it is  *)
(* passed as primary=False / primary=True.  A function that has no such    *)
(* parameter raises TypeError before its body runs.  The stubs and the     *)
(* native functions are called by the actions further down.                *)
(***************************************************************************)
Selections == {"none", "false", "true"}

\* the functions defined with a `primary` parameter (lines 170, 179, 198, 207, 222, 235)
HasPrimaryParameter(b) == b \in {"xclip", "xsel", "wl-clipboard"}

CallCopy(f, e, o, imp, v, sel) ==
    IF f.backend = "no" THEN ClipboardUnavailable_call(o)
    ELSE IF sel # "none" /\ ~HasPrimaryParameter(f.backend)
    THEN Res("TypeError", None, << >>, o)
    ELSE LET s == _stringifyText(v)
             text == s.text
             isPrimary == sel = "true"
         IN  IF s.exc # "none" THEN Res(s.exc, None, << >>, o)
             ELSE CASE f.backend = "pbcopy" -> copy_osx_pbcopy(e, o, text)
                    [] f.backend = "pyobjc" -> copy_osx_pyobjc(e, o, text, imp)
                    [] f.backend = "qt" -> copy_qt(e, o, text)
                    [] f.backend = "xclip" -> copy_xclip(e, o, text, isPrimary)
                    [] f.backend = "xsel" -> copy_xsel(e, o, text, isPrimary)
                    [] f.backend = "wl-clipboard" -> copy_wl(e, o, text, isPrimary)
                    [] f.backend = "gpaste" -> copy_gpaste(e, o, text)
                    [] f.backend = "klipper" -> copy_klipper(e, o, text)
                    [] f.backend = "dev_clipboard" -> copy_dev_clipboard(e, o, text)
                    [] f.backend = "wsl" -> copy_wsl(e, o, text)

CallPaste(f, e, o, imp, sel) ==
    IF f.backend = "no" THEN ClipboardUnavailable_call(o)
    ELSE IF sel # "none" /\ ~HasPrimaryParameter(f.backend)
    THEN Res("TypeError", None, << >>, o)
    ELSE LET isPrimary == sel = "true" IN
         CASE f.backend = "pbcopy" -> paste_osx_pbcopy(e, o)
           [] f.backend = "pyobjc" -> paste_osx_pyobjc(e, o, imp)
           [] f.backend = "qt" -> paste_qt(e, o)
           [] f.backend = "xclip" -> paste_xclip(e, o, isPrimary)
           [] f.backend = "xsel" -> paste_xsel(e, o, isPrimary)
           [] f.backend = "wl-clipboard" -> paste_wl(e, o, isPrimary)
           [] f.backend = "gpaste" -> paste_gpaste(e, o)
           [] f.backend = "klipper" -> paste_klipper(e, o)
           [] f.backend = "dev_clipboard" -> paste_dev_clipboard(e, o)
           [] f.backend = "wsl" -> paste_wsl(e, o)

(***************************************************************************)
(* Bounds of the model.                                                    *)
(***************************************************************************)
\* initializer calls explored in one behaviour
MaxInits == 2

\* The values handed to copy: a text, an integer, and a value of a type that
\* Text Coercion rejects.
Values == {Str(<<"a">>), [type |-> "int", val |-> 42], [type |-> "list", val |-> << >>]}

\* The arguments given to set_clipboard: the known names and "gtk", which the
\* docstring lists but clipboard_types does not hold.
SetClipboardArgs == BackendNames \cup {"gtk"}

(***************************************************************************)
(* The record of the last call: the operation, its arguments, whether the  *)
(* entry point it went through was still the stub, how many times it ran   *)
(* determine_clipboard and with which probes, the initializers it called,  *)
(* the function object that finally served it, the exception it raised     *)
(* ("none" if it returned, "pending" while a native operation runs), the   *)
(* value returned, the processes launched and, for a native operation,     *)
(* the OS calls made and the open attempts.                                *)
(***************************************************************************)
NoFn == [role |-> "none", backend |-> "none", id |-> 0]

NoCall ==
    [op |-> "import", v |-> None, sel |-> "none", name |-> "", wasStub |-> FALSE,
     resolved |-> 0, probes |-> << >>, inits |-> << >>, target |-> NoFn,
     exc |-> "none", ret |-> None, launches |-> << >>, oscalls |-> << >>, attempts |-> 0]

\* No native operation in progress.  A copy keeps, besides its position,
\* the local `count`, and of the block it allocates the flags, the size in
\* bytes and the UTF-16 units written to it; format is the format the block
\* was handed over under.
Idle == [pc |-> "idle", op |-> "none", text |-> << >>, hwnd |-> 0, t |-> 0,
         success |-> FALSE, handle |-> 0, locked |-> 0, exc |-> "none", ret |-> None,
         count |-> 0, flags |-> 0, size |-> 0, data |-> << >>, format |-> 0]

\* No wait call in progress.  A wait call keeps the function's name, its
\* timeout in ms (-1 when not given), the clock time.time() in ms since
\* the call started, startTime, originalText, the values its polls read, and
\* how it ended.
NoWait ==
    [pc |-> "idle", fn |-> "none", timeout |-> -1, clock |-> 0, startTime |-> 0,
     originalText |-> None, seen |-> << >>, exc |-> "none", ret |-> None]

\* The threads that call the module.  A thread that is not inside a
\* rebinding is "idle"; inside one it keeps the record of the call it
\* serves and the pair the initializer returned to it.
Threads == {1, 2}

NoThread == [pc |-> "idle", m |-> NoCall, fns |-> <<NoFn, NoFn>>]

\* lines 670-673: the module as loaded.
InitIn(envs) ==
    /\ env \in envs
    /\ copy = lazy_load_stub_copy
    /\ paste = lazy_load_stub_paste
    /\ initCount = 0
    /\ imported = {}
    /\ clipboard = NoData
    /\ primary = NoData
    /\ last = NoCall
    /\ nat = Idle
    /\ now = 0
    /\ cbHolder = "free"
    /\ liveWindows = 0
    /\ wait = NoWait
    /\ thr = [t \in Threads |-> NoThread]

\* the system's two buffers as one record, and back
Host == [clipboard |-> clipboard, primary |-> primary]

SetHost(o) == clipboard' = o.clipboard /\ primary' = o.primary

(***************************************************************************)
(* One run of determine_clipboard inside an action: the backend chosen,    *)
(* the initializer's effects and the globals the import statements bind    *)
(* (lines 514, 533-534).                                                   *)
(***************************************************************************)
Resolution ==
    LET r == determine_clipboard(env)
        i == clipboard_types(r.backend, env)
    IN  [backend |-> r.backend, probes |-> r.probes,
         exc |-> IF r.exc # "none" THEN r.exc ELSE i.exc, launches |-> i.launches,
         imports |-> {m \in {"Foundation", "AppKit"} :
                        /\ \E k \in 1..Len(r.probes) : r.probes[k] = "import:" \o m
                        /\ env[m]}]

(***************************************************************************)
(* Calling a function object from an action.  m is the record of the call  *)
(* so far.  A native function starts a native operation, which the Nat     *)
(* actions below carry out step by step; every other function is served    *)
(* in the same step.                                                       *)
(***************************************************************************)
ApiIdle == nat.pc = "idle"

Returned(m, f, r) ==
    /\ last' = [m EXCEPT !.target = f, !.exc = r.exc, !.ret = r.ret,
                         !.launches = @ \o r.launches]
    /\ SetHost(r.o)
    /\ UNCHANGED natVars

Raised(m, f, exc) ==
    /\ last' = [m EXCEPT !.target = f, !.exc = exc]
    /\ UNCHANGED <<osVars, natVars>>

\* copy_windows entering `with window()` before it looks at the value
copy_windows_window_first(f, v, sel, m) ==
    /\ nat' = [Idle EXCEPT !.pc = "CreateWindowExA", !.op = "copy",
                           !.text = _stringifyText(v).text]
    /\ now' = 0
    /\ last' = [m EXCEPT !.target = f, !.exc = "pending"]
    /\ UNCHANGED <<osVars, cbHolder, liveWindows>>

\* lines 440-446: copy_windows up to `with window()`.
copy_windows(f, v, sel, m) ==
    IF sel # "none" THEN Raised(m, f, "TypeError")
    ELSE LET s == _stringifyText(v) IN
         IF s.exc # "none" THEN Raised(m, f, s.exc)
         ELSE /\ nat' = [Idle EXCEPT !.pc = "CreateWindowExA", !.op = "copy", !.text = s.text]
              /\ now' = 0
              /\ last' = [m EXCEPT !.target = f, !.exc = "pending"]
              /\ UNCHANGED <<osVars, cbHolder, liveWindows>>

\* program constants of the clipboard-open scope, in milliseconds
OpenTimeoutMs == 500
RetryIntervalMs == 10

\* lines 470-471 with 425-426: paste_windows enters clipboard(None) at once.
paste_windows(f, sel, m) ==
    IF sel # "none" THEN Raised(m, f, "TypeError")
    ELSE /\ nat' = [Idle EXCEPT !.pc = "OpenClipboard", !.op = "paste",
                                !.t = 0 + OpenTimeoutMs]
         /\ now' = 0
         /\ last' = [m EXCEPT !.target = f, !.exc = "pending"]
         /\ UNCHANGED <<osVars, cbHolder, liveWindows>>

InvokeCopy(f, imp, v, sel, m) ==
    IF f.backend = "windows" THEN copy_windows(f, v, sel, m)
    ELSE \E r \in {CallCopy(f, env, Host, imp, v, sel)} : Returned(m, f, r)

InvokePaste(f, imp, sel, m) ==
    IF f.backend = "windows" THEN paste_windows(f, sel, m)
    ELSE \E r \in {CallPaste(f, env, Host, imp, sel)} : Returned(m, f, r)

(***************************************************************************)
(* The public functions.                                                   *)
(***************************************************************************)
Call(op, v, sel, name) ==
    [NoCall EXCEPT !.op = op, !.v = v, !.sel = sel, !.name = name]

\* the assignment of lines 639-640 with `paste` not among the globals assigned
Rebind_copy_only(b) ==
    /\ initCount < MaxInits
    /\ initCount' = initCount + 1
    /\ copy' = Closure("copy", b, initCount + 1)
    /\ paste' = paste

\* lines 639-640 and 661-662: `copy, paste = determine_clipboard()`.
Rebind(b) ==
    /\ initCount < MaxInits
    /\ initCount' = initCount + 1
    /\ copy' = Closure("copy", b, initCount + 1)
    /\ paste' = Closure("paste", b, initCount + 1)

Resolved(m, r) ==
    [m EXCEPT !.resolved = @ + 1, !.probes = r.probes,
              !.inits = IF r.backend = "none" THEN @ ELSE Append(@, r.backend),
              !.launches = @ \o r.launches]

\* lines 622-641 with the exception of determine_clipboard caught and the
\* pair of init_no_clipboard bound in its place
lazy_load_stub_copy_body_falls_back(v, m) ==
    \E r \in {Resolution} :
    /\ Rebind(IF r.exc # "none" THEN "no" ELSE r.backend)
    /\ imported' = imported \cup r.imports
    /\ InvokeCopy(copy', imported', v, "none", Resolved(m, r))

\* lines 622-641: an exception of determine_clipboard leaves the stub before
\* anything is assigned.
lazy_load_stub_copy_body(v, m) ==
    \E r \in {Resolution} :
    /\ imported' = imported \cup r.imports
    /\ IF r.exc # "none"
       THEN /\ Raised(Resolved(m, r), lazy_load_stub_copy, r.exc)
            /\ UNCHANGED <<copy, paste, initCount>>
       ELSE /\ Rebind(r.backend)
            /\ InvokeCopy(copy', imported', v, "none", Resolved(m, r))

\* lines 644-663
lazy_load_stub_paste_body(m) ==
    \E r \in {Resolution} :
    /\ imported' = imported \cup r.imports
    /\ IF r.exc # "none"
       THEN /\ Raised(Resolved(m, r), lazy_load_stub_paste, r.exc)
            /\ UNCHANGED <<copy, paste, initCount>>
       ELSE /\ Rebind(r.backend)
            /\ InvokePaste(paste', imported', "none", Resolved(m, r))

\* pyperclipfix.copy(v) or pyperclipfix.copy(v, primary=...): the call goes to
\* whatever the global is bound to; the stub takes the text alone.
Copy(v, sel) ==
    /\ ApiIdle
    /\ LET m == [Call("copy", v, sel, "") EXCEPT !.wasStub = (copy = lazy_load_stub_copy)] IN
       IF copy = lazy_load_stub_copy
       THEN IF sel # "none"
            THEN Raised(m, copy, "TypeError") /\ UNCHANGED dispatchVars
            ELSE lazy_load_stub_copy_body(v, m)
       ELSE InvokeCopy(copy, imported, v, sel, m) /\ UNCHANGED dispatchVars
    /\ UNCHANGED <<env, wait, thr>>

\* pyperclipfix.paste() or pyperclipfix.paste(primary=...)
Paste(sel) ==
    /\ ApiIdle
    /\ LET m == [Call("paste", None, sel, "") EXCEPT !.wasStub = (paste = lazy_load_stub_paste)] IN
       IF paste = lazy_load_stub_paste
       THEN IF sel # "none"
            THEN Raised(m, paste, "TypeError") /\ UNCHANGED dispatchVars
            ELSE lazy_load_stub_paste_body(m)
       ELSE InvokePaste(paste, imported, sel, m) /\ UNCHANGED dispatchVars
    /\ UNCHANGED <<env, wait, thr>>

\* A call of the stub function itself, through a reference to it that does
\* not go through the global (pyperclipfix.lazy_load_stub_copy, or
\* `from pyperclipfix import copy` done before the first call).
StubCopy(v) ==
    /\ ApiIdle
    /\ lazy_load_stub_copy_body(v, [Call("lazy_load_stub_copy", v, "none", "")
                                      EXCEPT !.wasStub = (copy = lazy_load_stub_copy)])
    /\ UNCHANGED <<env, wait, thr>>

StubPaste ==
    /\ ApiIdle
    /\ lazy_load_stub_paste_body([Call("lazy_load_stub_paste", None, "none", "")
                                    EXCEPT !.wasStub = (paste = lazy_load_stub_paste)])
    /\ UNCHANGED <<env, wait, thr>>

\* lines 583-619 with a failed override falling back to the two stubs
set_clipboard_resets_on_failure(name) ==
    /\ ApiIdle
    /\ LET m == [Call("set_clipboard", None, "none", name)
                   EXCEPT !.wasStub = (copy = lazy_load_stub_copy)] IN
       IF name \notin BackendNames
       THEN /\ last' = [m EXCEPT !.exc = "ValueError"]
            /\ copy' = lazy_load_stub_copy
            /\ paste' = lazy_load_stub_paste
            /\ UNCHANGED <<initCount, imported>>
       ELSE LET i == clipboard_types(name, env) IN
            IF i.exc # "none"
            THEN /\ last' = [m EXCEPT !.exc = i.exc, !.inits = <<name>>]
                 /\ copy' = lazy_load_stub_copy
                 /\ paste' = lazy_load_stub_paste
                 /\ UNCHANGED <<initCount, imported>>
            ELSE /\ Rebind(name)
                 /\ last' = [m EXCEPT !.inits = <<name>>, !.launches = i.launches,
                                      !.target = copy']
                 /\ UNCHANGED imported
    /\ UNCHANGED <<env, wait, thr, osVars, natVars>>

\* lines 583-619
set_clipboard(name) ==
    /\ ApiIdle
    /\ LET m == [Call("set_clipboard", None, "none", name)
                   EXCEPT !.wasStub = (copy = lazy_load_stub_copy)] IN
       IF name \notin BackendNames
       THEN /\ last' = [m EXCEPT !.exc = "ValueError"]
            /\ UNCHANGED dispatchVars
       ELSE LET i == clipboard_types(name, env) IN
            IF i.exc # "none"
            THEN /\ last' = [m EXCEPT !.exc = i.exc, !.inits = <<name>>]
                 /\ UNCHANGED dispatchVars
            ELSE /\ Rebind(name)
                 /\ last' = [m EXCEPT !.inits = <<name>>, !.launches = i.launches,
                                      !.target = copy']
                 /\ UNCHANGED imported
    /\ UNCHANGED <<env, wait, thr, osVars, natVars>>

\* is_available that also asks whether the bound function is usable
is_available_usable ==
    copy # lazy_load_stub_copy /\ paste # lazy_load_stub_paste /\ copy.backend # "no"

\* lines 666-667
is_available == copy # lazy_load_stub_copy /\ paste # lazy_load_stub_paste

IsAvailable ==
    /\ ApiIdle
    /\ last' = [Call("is_available", None, "none", "")
                  EXCEPT !.ret = [type |-> "bool", val |-> is_available],
                         !.wasStub = (copy = lazy_load_stub_copy)]
    /\ UNCHANGED <<env, wait, thr, dispatchVars, osVars, natVars>>

\* lines 508-580 called by the user: the pair is returned, nothing is bound.
DetermineClipboard ==
    /\ ApiIdle
    /\ initCount < MaxInits
    /\ \E r \in {Resolution} :
       /\ imported' = imported \cup r.imports
       /\ IF r.exc # "none"
          THEN /\ initCount' = initCount
               /\ last' = [Resolved(Call("determine_clipboard", None, "none", ""), r)
                             EXCEPT !.exc = r.exc,
                                    !.wasStub = (copy = lazy_load_stub_copy)]
          ELSE /\ initCount' = initCount + 1
               /\ last' = [Resolved(Call("determine_clipboard", None, "none", ""), r)
                             EXCEPT !.target = Closure("copy", r.backend, initCount + 1),
                                    !.wasStub = (copy = lazy_load_stub_copy)]
    /\ UNCHANGED <<env, wait, thr, copy, paste, osVars, natVars>>

(***************************************************************************)
(* The native Windows operations, one OS call per step.  A wrapped call    *)
(* returns ret (0 is NULL/FALSE); errno is what ctypes.get_errno() gives   *)
(* when CheckedCall asks for it.  Both are the environment's choice within *)
(* what the call can do.                                                   *)
(***************************************************************************)
Errnos == {0, 5}

\* lines 331-339
CheckedCall(name, ret, errno) ==
    IF ret = 0 /\ errno # 0
    THEN "PyperclipWindowsException:Error calling " \o name
    ELSE "none"

Logged(name) == Append(last.oscalls, name)

NatFinish(log, exc, ret) ==
    /\ nat' = Idle
    /\ now' = 0
    /\ last' = [last EXCEPT !.oscalls = log, !.exc = exc,
                            !.ret = IF exc = "none" THEN ret ELSE None]

\* clipboard() and window() without their try/finally: the exception leaves
\* the function at once
NatUnwind_no_finally(name, exc) ==
    /\ nat' = Idle
    /\ last' = [last EXCEPT !.oscalls = Logged(name), !.exc = exc]

\* an exception inside the clipboard scope: lines 435-438 run CloseClipboard
NatUnwind(name, exc) ==
    /\ nat' = [nat EXCEPT !.pc = "CloseClipboard", !.exc = exc]
    /\ last' = [last EXCEPT !.oscalls = Logged(name)]

NatGoto(name, pc) ==
    /\ nat' = [nat EXCEPT !.pc = pc]
    /\ last' = [last EXCEPT !.oscalls = Logged(name)]

\* lines 409-411: window() creates the window and yields its handle.
NatCreateWindowExA ==
    /\ nat.pc = "CreateWindowExA"
    /\ \E ret \in {0, 1}, errno \in Errnos :
         LET x == CheckedCall("CreateWindowExA", ret, errno) IN
         IF x # "none"
         THEN NatFinish(Logged("CreateWindowExA"), x, None) /\ UNCHANGED liveWindows
         ELSE /\ nat' = [nat EXCEPT !.pc = "OpenClipboard", !.hwnd = ret,
                                    !.t = now + OpenTimeoutMs]
              /\ liveWindows' = liveWindows + ret
              /\ last' = [last EXCEPT !.oscalls = Logged("CreateWindowExA")]
              /\ now' = now
    /\ UNCHANGED <<env, wait, thr, dispatchVars, osVars, cbHolder>>

\* lines 427-433: one test of the loop condition and what follows it.
NatOpenClipboard ==
    /\ nat.pc = "OpenClipboard"
    /\ IF now < nat.t
       THEN /\ last' = [last EXCEPT !.oscalls = Logged("OpenClipboard"),
                                    !.attempts = @ + 1]
            /\ IF cbHolder = "free"
               THEN /\ cbHolder' = "self"
                    /\ nat' = [nat EXCEPT !.success = TRUE,
                                 !.pc = IF nat.op = "copy" THEN "EmptyClipboard"
                                        ELSE "GetClipboardData"]
               ELSE /\ cbHolder' = cbHolder
                    /\ nat' = [nat EXCEPT !.pc = "sleep"]
            /\ now' = now
       ELSE /\ cbHolder' = cbHolder
            /\ IF nat.op = "copy"
               THEN /\ nat' = [nat EXCEPT !.pc = "DestroyWindow",
                                 !.exc = "PyperclipWindowsException:Error calling OpenClipboard"]
                    /\ UNCHANGED <<last, now>>
               ELSE NatFinish(last.oscalls,
                              "PyperclipWindowsException:Error calling OpenClipboard", None)
    /\ UNCHANGED <<env, wait, thr, dispatchVars, osVars, liveWindows>>

\* line 431 sleeping ten times as long
NatSleep_long ==
    /\ nat.pc = "sleep"
    /\ now' = now + 10 * RetryIntervalMs
    /\ nat' = [nat EXCEPT !.pc = "OpenClipboard"]
    /\ UNCHANGED <<env, wait, thr, dispatchVars, osVars, last, cbHolder, liveWindows>>

\* line 431
NatSleep ==
    /\ nat.pc = "sleep"
    /\ now' = now + RetryIntervalMs
    /\ nat' = [nat EXCEPT !.pc = "OpenClipboard"]
    /\ UNCHANGED <<env, wait, thr, dispatchVars, osVars, last, cbHolder, liveWindows>>

\* lines 453-455
NatEmptyClipboard ==
    /\ nat.pc = "EmptyClipboard"
    /\ \E ret \in {0, 1}, errno \in Errnos :
         LET x == CheckedCall("EmptyClipboard", ret, errno) IN
         IF x # "none" THEN NatUnwind("EmptyClipboard", x) /\ UNCHANGED osVars
         ELSE /\ NatGoto("EmptyClipboard",
                         IF nat.text # << >> THEN "GlobalAlloc" ELSE "CloseClipboard")
              /\ clipboard' = IF ret = 1 THEN NoData ELSE clipboard
              /\ UNCHANGED primary
    /\ UNCHANGED <<env, wait, thr, dispatchVars, now, cbHolder, liveWindows>>

\* lines 399-400, and sizeof(c_wchar) where wchar_t is a UTF-16 unit
GMEM_MOVEABLE == 2
CF_UNICODETEXT == 13
sizeof_c_wchar == 2

\* c_wchar_p(text): the text as a NUL-terminated array of UTF-16 units; a
\* character beyond U+FFFF is a surrogate pair.
RECURSIVE c_wchar_p(_)
c_wchar_p(t) ==
    IF t = << >> THEN <<0>>
    ELSE LET cp == CodePoint(Head(t)) IN
         (IF cp < 65536 THEN <<cp>>
          ELSE <<55296 + ((cp - 65536) \div 1024), 56320 + ((cp - 65536) % 1024)>>)
         \o c_wchar_p(Tail(t))

\* msvcrt.wcslen: the units before the first NUL.
RECURSIVE wcslen(_)
wcslen(w) == IF Head(w) = 0 THEN 0 ELSE 1 + wcslen(Tail(w))

\* lines 460-462 with `count = wcslen(text)`: no unit for the terminator
NatGlobalAlloc_no_terminator ==
    /\ nat.pc = "GlobalAlloc"
    /\ \E ret \in {0, 1}, errno \in Errnos :
         LET x == CheckedCall("GlobalAlloc", ret, errno)
             count == wcslen(c_wchar_p(nat.text))
         IN  IF x # "none" THEN NatUnwind("GlobalAlloc", x)
             ELSE /\ nat' = [nat EXCEPT !.pc = "GlobalLock", !.handle = ret,
                                        !.count = count, !.flags = GMEM_MOVEABLE,
                                        !.size = IF ret = 0 THEN 0
                                                 ELSE count * sizeof_c_wchar]
                  /\ last' = [last EXCEPT !.oscalls = Logged("GlobalAlloc")]
    /\ UNCHANGED <<env, wait, thr, dispatchVars, osVars, now, cbHolder, liveWindows>>

\* lines 460-462: wcslen of a non-empty text is not 0, so the wrapped
\* wcslen does not raise; then GlobalAlloc of count units.
NatGlobalAlloc ==
    /\ nat.pc = "GlobalAlloc"
    /\ \E ret \in {0, 1}, errno \in Errnos :
         LET x == CheckedCall("GlobalAlloc", ret, errno)
             count == wcslen(c_wchar_p(nat.text)) + 1
         IN  IF x # "none" THEN NatUnwind("GlobalAlloc", x)
             ELSE /\ nat' = [nat EXCEPT !.pc = "GlobalLock", !.handle = ret,
                                        !.count = count, !.flags = GMEM_MOVEABLE,
                                        !.size = IF ret = 0 THEN 0
                                                 ELSE count * sizeof_c_wchar]
                  /\ last' = [last EXCEPT !.oscalls = Logged("GlobalAlloc")]
    /\ UNCHANGED <<env, wait, thr, dispatchVars, osVars, now, cbHolder, liveWindows>>

\* lines 463 and 479-480
NatGlobalLock ==
    /\ nat.pc = "GlobalLock"
    /\ \E ret \in (IF nat.handle = 0 THEN {0} ELSE {0, 1}), errno \in Errnos :
         LET x == CheckedCall("GlobalLock", ret, errno) IN
         IF x # "none" THEN NatUnwind("GlobalLock", x)
         ELSE /\ nat' = [nat EXCEPT
                           !.pc = IF nat.op = "copy" THEN "memmove" ELSE "GlobalUnlock",
                           !.locked = ret,
                           !.ret = IF nat.op = "copy" THEN None
                                   ELSE IF ret = 0 THEN None ELSE Str(clipboard)]
              /\ last' = [last EXCEPT !.oscalls = Logged("GlobalLock")]
    /\ UNCHANGED <<env, wait, thr, dispatchVars, osVars, now, cbHolder, liveWindows>>

\* line 465: count units of the text's array go to the block; a write
\* through a NULL pointer is an access violation.
NatMemmove ==
    /\ nat.pc = "memmove"
    /\ IF nat.locked = 0 THEN NatUnwind("memmove", "OSError")
       ELSE /\ nat' = [nat EXCEPT !.pc = "GlobalUnlock",
                         !.data = SubSeq(c_wchar_p(nat.text), 1,
                                         (nat.count * sizeof_c_wchar) \div sizeof_c_wchar)]
            /\ last' = [last EXCEPT !.oscalls = Logged("memmove")]
    /\ UNCHANGED <<env, wait, thr, dispatchVars, osVars, now, cbHolder, liveWindows>>

\* lines 467 and 481: the one lock taken is released.
NatGlobalUnlock ==
    /\ nat.pc = "GlobalUnlock"
    /\ \E ret \in {0, 1}, errno \in Errnos :
         LET x == CheckedCall("GlobalUnlock", ret, errno) IN
         IF x # "none" THEN NatUnwind("GlobalUnlock", x)
         ELSE /\ nat' = [nat EXCEPT
                           !.pc = IF nat.op = "copy" THEN "SetClipboardData"
                                  ELSE "CloseClipboard",
                           !.locked = 0]
              /\ last' = [last EXCEPT !.oscalls = Logged("GlobalUnlock")]
    /\ UNCHANGED <<env, wait, thr, dispatchVars, osVars, now, cbHolder, liveWindows>>

\* line 468: the block, which holds the text, becomes the clipboard's.
NatSetClipboardData ==
    /\ nat.pc = "SetClipboardData"
    /\ \E ret \in {0, 1}, errno \in Errnos :
         LET x == CheckedCall("SetClipboardData", ret, errno) IN
         IF x # "none" THEN NatUnwind("SetClipboardData", x) /\ UNCHANGED osVars
         ELSE /\ nat' = [nat EXCEPT !.pc = "CloseClipboard", !.format = CF_UNICODETEXT]
              /\ last' = [last EXCEPT !.oscalls = Logged("SetClipboardData")]
              /\ clipboard' = IF ret = 1 THEN nat.text ELSE clipboard
              /\ UNCHANGED primary
    /\ UNCHANGED <<env, wait, thr, dispatchVars, now, cbHolder, liveWindows>>

\* lines 472-478
NatGetClipboardData ==
    /\ nat.pc = "GetClipboardData"
    /\ \E ret \in (IF clipboard = NoData THEN {0} ELSE {0, 1}), errno \in Errnos :
         LET x == CheckedCall("GetClipboardData", ret, errno) IN
         IF x # "none" THEN NatUnwind("GetClipboardData", x)
         ELSE IF ret = 0
         THEN /\ nat' = [nat EXCEPT !.pc = "CloseClipboard", !.ret = Str(<< >>)]
              /\ last' = [last EXCEPT !.oscalls = Logged("GetClipboardData")]
         ELSE /\ nat' = [nat EXCEPT !.pc = "GlobalLock", !.handle = ret]
              /\ last' = [last EXCEPT !.oscalls = Logged("GetClipboardData")]
    /\ UNCHANGED <<env, wait, thr, dispatchVars, osVars, now, cbHolder, liveWindows>>

\* copy_windows returning from the clipboard scope without leaving window()
NatCloseClipboard_skips_window ==
    /\ nat.pc = "CloseClipboard"
    /\ cbHolder' = "free"
    /\ NatFinish(Logged("CloseClipboard"), nat.exc, nat.ret)
    /\ UNCHANGED <<env, wait, thr, dispatchVars, osVars, liveWindows>>

\* lines 435-438: the finally clause of clipboard().  The clipboard is open
\* by this process, so the call closes it; an exception it raises replaces
\* the one in flight.
NatCloseClipboard ==
    /\ nat.pc = "CloseClipboard"
    /\ cbHolder' = "free"
    /\ \E ret \in {1}, errno \in Errnos :
         LET x == CheckedCall("CloseClipboard", ret, errno)
             exc == IF x # "none" THEN x ELSE nat.exc
         IN  IF nat.op = "copy"
             THEN /\ nat' = [nat EXCEPT !.pc = "DestroyWindow", !.exc = exc]
                  /\ last' = [last EXCEPT !.oscalls = Logged("CloseClipboard")]
                  /\ now' = now
             ELSE NatFinish(Logged("CloseClipboard"), exc, nat.ret)
    /\ UNCHANGED <<env, wait, thr, dispatchVars, osVars, liveWindows>>

\* lines 412-414: the finally clause of window().  Destroying the window
\* this thread created succeeds; a NULL handle destroys nothing.
NatDestroyWindow ==
    /\ nat.pc = "DestroyWindow"
    /\ liveWindows' = liveWindows - nat.hwnd
    /\ \E ret \in {nat.hwnd}, errno \in Errnos :
         LET x == CheckedCall("DestroyWindow", ret, errno) IN
         NatFinish(Logged("DestroyWindow"), IF x # "none" THEN x ELSE nat.exc, nat.ret)
    /\ UNCHANGED <<env, wait, thr, dispatchVars, osVars, cbHolder>>

\* Another application opens the Windows clipboard, and closes it.
OtherOpenClipboard ==
    /\ env.os_name = "nt"
    /\ cbHolder = "free"
    /\ cbHolder' = "other"
    /\ UNCHANGED <<env, wait, thr, dispatchVars, osVars, last, nat, now, liveWindows>>

OtherCloseClipboard ==
    /\ cbHolder = "other"
    /\ cbHolder' = "free"
    /\ UNCHANGED <<env, wait, thr, dispatchVars, osVars, last, nat, now, liveWindows>>

(***************************************************************************)
(* Hosts the program is run on.                                            *)
(***************************************************************************)
Plat(system, os, dev, pv, f, a) ==
    [system |-> system, os_name |-> os, dev_clipboard |-> dev, proc_version |-> pv,
     Foundation |-> f, AppKit |-> a]

Sess(xdg, wl, dpy, path, qtpy, pyqt5) ==
    [xdg |-> xdg, wayland |-> wl, display |-> dpy, path |-> path, qtpy |-> qtpy,
     PyQt5 |-> pyqt5]

Bare == Sess(NoneVal, NoneVal, NoneVal, {}, FALSE, FALSE)
LinuxPlat == Plat("Linux", "posix", FALSE, "5.15-generic", FALSE, FALSE)

WindowsHost == MkEnv(Plat("Windows", "nt", FALSE, NoneVal, FALSE, FALSE), Bare)
XselHost == MkEnv(LinuxPlat, Sess("XFCE", NoneVal, ":0", {"xsel", "xclip"}, FALSE, FALSE))
XclipHost == MkEnv(LinuxPlat, Sess(NoneVal, NoneVal, ":0", {"xclip"}, FALSE, FALSE))
BareHost == MkEnv(LinuxPlat, Bare)
PyobjcHost == MkEnv(Plat("Darwin", "posix", FALSE, NoneVal, TRUE, TRUE), Bare)
PbcopyHost == MkEnv(Plat("Darwin", "posix", FALSE, NoneVal, FALSE, FALSE), Bare)
WslHost == MkEnv(Plat("Linux", "posix", FALSE, "4.4.0-Microsoft", FALSE, FALSE), Bare)
CygwinHost == MkEnv(Plat("CYGWIN_NT-6.1", "posix", TRUE, NoneVal, FALSE, FALSE), Bare)
GnomeHost ==
    MkEnv(LinuxPlat, Sess("ubuntu:GNOME", NoneVal, ":0", {"gpaste-client", "xclip"}, FALSE, FALSE))
KdeHost == MkEnv(LinuxPlat, Sess("KDE", NoneVal, ":0", {"klipper", "qdbus"}, FALSE, FALSE))
WaylandHost ==
    MkEnv(LinuxPlat, Sess(NoneVal, "wayland-0", ":0", {"wl-copy", "xclip"}, FALSE, FALSE))
QtHost == MkEnv(LinuxPlat, Sess(NoneVal, NoneVal, NoneVal, {}, TRUE, FALSE))
BareCygwinHost == MkEnv(Plat("CYGWIN_NT-6.1", "posix", FALSE, NoneVal, FALSE, FALSE), Bare)
DisplayOnlyHost == MkEnv(LinuxPlat, Sess("XFCE", "", ":0", {"wl-copy"}, FALSE, FALSE))

SessionOnlyHost ==
    MkEnv(LinuxPlat, Sess("ubuntu:GNOME", "wayland-0", ":0", {"qdbus"}, FALSE, FALSE))

Hosts ==
    {WindowsHost, XselHost, XclipHost, BareHost, PyobjcHost, PbcopyHost, WslHost,
     CygwinHost, GnomeHost, KdeHost, WaylandHost, QtHost, BareCygwinHost, DisplayOnlyHost,
     SessionOnlyHost}

(***************************************************************************)
(* Specifications.                                                         *)
(***************************************************************************)
Init == InitIn(Hosts)

\* the steps of a native operation that finds the clipboard free
NatStep ==
    \/ NatCreateWindowExA
    \/ NatOpenClipboard
    \/ NatEmptyClipboard
    \/ NatGlobalAlloc
    \/ NatGlobalLock
    \/ NatMemmove
    \/ NatGlobalUnlock
    \/ NatSetClipboardData
    \/ NatGetClipboardData
    \/ NatCloseClipboard
    \/ NatDestroyWindow

Next ==
    \/ \E v \in Values, sel \in Selections : Copy(v, sel)
    \/ \E sel \in Selections : Paste(sel)
    \/ \E v \in Values : StubCopy(v)
    \/ StubPaste
    \/ \E name \in SetClipboardArgs : set_clipboard(name)
    \/ IsAvailable
    \/ DetermineClipboard
    \/ NatStep

\* the whole module on the hosts above, no other application holding the
\* Windows clipboard
Spec == Init /\ [][Next]_vars

\* determine_clipboard alone, on every host of the bounded environment space
SpecResolve == InitIn(AllEnvs) /\ [][DetermineClipboard]_vars

\* the native operations on the Windows host, with another application
\* opening and closing the clipboard at any time
SpecNative ==
    /\ InitIn({WindowsHost})
    /\ [][\/ \E v \in Values : Copy(v, "none")
          \/ Paste("none")
          \/ NatStep
          \/ NatSleep
          \/ OtherOpenClipboard
          \/ OtherCloseClipboard]_vars

\* the thread that runs a native operation keeps running: its next step is
\* taken; the other application may hold the clipboard as long as it likes
SpecNativeFair == SpecNative /\ WF_vars(NatStep \/ NatSleep)

(***************************************************************************)
(* Backend resolution: C7, C8 (checked under SpecResolve).                 *)
(***************************************************************************)
\* What the host is, read off the snapshot: the platform branch that applies
\* to it, or "generic" when none does.
C7_Expected(e) ==
    IF e.system = "CYGWIN_NT-6.1" /\ e.dev_clipboard THEN "dev_clipboard"
    ELSE IF e.system = "Windows" THEN "windows"
    ELSE IF e.system = "Linux" /\ e.proc_version = "4.4.0-Microsoft" THEN "wsl"
    ELSE IF e.system = "Darwin"
         THEN IF e.Foundation /\ e.AppKit THEN "pyobjc" ELSE "pbcopy"
    ELSE "generic"

\* the number of the branch a backend is chosen by, and of the branch a probe
\* of the environment belongs to (5: the generic branches)
C7_BranchOf(b) ==
    CASE b = "dev_clipboard" -> 1
      [] b = "windows" -> 2
      [] b = "wsl" -> 3
      [] b \in {"pyobjc", "pbcopy"} -> 4
      [] OTHER -> 5

C7_ProbeBranch(p) ==
    CASE p = "exists:/dev/clipboard" -> 1
      [] p \in {"isfile:/proc/version", "read:/proc/version"} -> 3
      [] p \in {"import:Foundation", "import:AppKit"} -> 4
      [] OTHER -> 5

\* C7: on every snapshot determine_clipboard returns the backend of the first
\* platform branch that applies, in the order (1) Cygwin with /dev/clipboard
\* -> dev_clipboard, (2) Windows -> windows, (3) Linux whose /proc/version
\* names Microsoft -> wsl, (4) macOS -> pyobjc if Foundation and AppKit
\* import, else pbcopy; it has then probed nothing that belongs to a later
\* branch and has run no initializer but the chosen one; the backend is a
\* function of the snapshot (the same on every call).
C7_PlatformBranchOrder ==
    last.op = "determine_clipboard" =>
        LET b == C7_Expected(env) IN
        /\ b # "generic" =>
              /\ last.target.backend = b
              /\ last.inits = <<b>>
              /\ \A k \in 1..Len(last.probes) :
                    C7_ProbeBranch(last.probes[k]) <= C7_BranchOf(b)
        /\ b = "generic" => C7_BranchOf(last.target.backend) = 5

\* a Cygwin host with /dev/clipboard that also has an X11 display and xclip
C7_Witness ==
    /\ last.op = "determine_clipboard"
    /\ env.system = "CYGWIN_NT-6.1" /\ env.dev_clipboard
    /\ env.display = ":0" /\ "xclip" \in env.path /\ env.qtpy
    /\ last.target.backend = "dev_clipboard"
    /\ last.probes = <<"exists:/dev/clipboard">>

\* The generic branches of C8 in their order, as conditions on the snapshot.
C8_Expected(e) ==
    IF e.xdg = "ubuntu:GNOME" /\ "gpaste-client" \in e.path THEN "gpaste"
    ELSE IF e.xdg = "KDE" /\ {"klipper", "qdbus"} \subseteq e.path THEN "klipper"
    ELSE IF e.wayland = "wayland-0" /\ "wl-copy" \in e.path THEN "wl-clipboard"
    ELSE IF e.display = ":0" /\ "xsel" \in e.path THEN "xsel"
    ELSE IF e.display = ":0" /\ "xclip" \in e.path THEN "xclip"
    ELSE IF e.qtpy \/ e.PyQt5 THEN "qt"
    ELSE "no"

\* C8: on a host no platform branch applies to, determine_clipboard returns
\* the first match of (a) GNOME session and gpaste-client, (b) KDE session and
\* klipper and qdbus, (c) Wayland display and wl-copy, (d) X11 display and
\* xsel, else xclip, (e) an importable Qt binding; so xsel wins over xclip,
\* wl-clipboard is never chosen without a Wayland display, and a session tool
\* wins over the Wayland and X11 tools.
C8_GenericBranchOrder ==
    (last.op = "determine_clipboard" /\ C7_Expected(env) = "generic") =>
        LET b == last.target.backend IN
        /\ C8_Expected(env) # "no" => b = C8_Expected(env)
        /\ {"xsel", "xclip"} \subseteq env.path => b # "xclip"
        /\ b = "wl-clipboard" => env.wayland = "wayland-0"
        /\ b \in {"wl-clipboard", "xsel", "xclip"} =>
              /\ ~(env.xdg = "ubuntu:GNOME" /\ "gpaste-client" \in env.path)
              /\ ~(env.xdg = "KDE" /\ {"klipper", "qdbus"} \subseteq env.path)

\* a GNOME session with every tool installed and both displays set
C8_Witness ==
    /\ last.op = "determine_clipboard"
    /\ env.system = "Linux" /\ env.proc_version = "5.15-generic"
    /\ env.xdg = "ubuntu:GNOME" /\ env.path = Executables
    /\ env.wayland = "wayland-0" /\ env.display = ":0"
    /\ last.target.backend = "gpaste"

(***************************************************************************)
(* Lazy dispatch and override: C1 - C6 (checked under Spec).               *)
(***************************************************************************)
\* a call copy(v) or paste() through the module's two entry points
EntryCall == (\E v \in Values : Copy(v, "none")) \/ Paste("none")

\* the same, with or without the selection argument
EntryCallSel(sel) == (\E v \in Values : Copy(v, sel)) \/ Paste(sel)

C2_BindingChangesOnlyBySetClipboard ==
    [][(copy # lazy_load_stub_copy /\ paste # lazy_load_stub_paste) =>
          /\ copy' # lazy_load_stub_copy /\ paste' # lazy_load_stub_paste
          /\ \/ \E name \in SetClipboardArgs : set_clipboard(name)
             \/ copy'.backend = copy.backend /\ paste'.backend = paste.backend]_vars

C5_UnavailableIsNotAvailable ==
    (copy.backend = "no" /\ paste.backend = "no") =>
        /\ ~is_available
        /\ last.op = "is_available" => ~last.ret.val

\* No resolution branch applies to the host.
NoMechanism(e) == C7_Expected(e) = "generic" /\ C8_Expected(e) = "no"

InLog(name) == \E k \in 1..Len(last.oscalls) : last.oscalls[k] = name

\* a native operation has returned or raised
NatDone == nat.pc = "idle" /\ last.target.backend = "windows" /\ last.exc # "pending"

ClipboardBusy == "PyperclipWindowsException:Error calling OpenClipboard"

LoopSteps == OpenTimeoutMs \div RetryIntervalMs

InOpenLoop == nat.pc \in {"OpenClipboard", "sleep"}

\* the OS calls logged are: CreateWindowExA if any, then the open attempts,
\* then the rest, with no open attempt among it
AttemptsFirst ==
    LET first == IF last.op = "copy" THEN 1 ELSE 0 IN
    \A k \in 1..Len(last.oscalls) :
        last.oscalls[k] = "OpenClipboard" <=> (first < k /\ k <= first + last.attempts)

C10_Safety ==
    /\ nat.pc = "OpenClipboard" =>
          /\ nat.t = OpenTimeoutMs
          /\ now = RetryIntervalMs * last.attempts /\ now <= OpenTimeoutMs
    /\ nat.pc = "sleep" =>
          /\ last.attempts >= 1 /\ now = RetryIntervalMs * (last.attempts - 1)
          /\ now < OpenTimeoutMs
    /\ (nat.pc # "idle" \/ NatDone) =>
          /\ last.attempts <= LoopSteps
          /\ AttemptsFirst
          /\ nat.success => last.attempts >= 1
          /\ (cbHolder = "self") => nat.success /\ ~InOpenLoop
    /\ (nat.pc = "DestroyWindow" /\ ~nat.success) =>
          /\ nat.exc = ClipboardBusy /\ last.attempts = LoopSteps
          /\ last.oscalls = <<"CreateWindowExA">> \o [k \in 1..LoopSteps |-> "OpenClipboard"]
    /\ (NatDone /\ last.exc = ClipboardBusy) =>
          /\ last.attempts = LoopSteps
          /\ ~InLog("CloseClipboard") /\ ~InLog("EmptyClipboard")
          /\ ~InLog("SetClipboardData") /\ ~InLog("GetClipboardData")
    /\ (NatDone /\ InLog("OpenClipboard") /\ ~InLog("CloseClipboard")) =>
          last.attempts = LoopSteps

MaxNegative == 15
MaxInt == 40
MaxTextLen == 2

Texts == UNION {[1..n -> {"a", "\n", "e-acute"}] : n \in 0..MaxTextLen}

CoerceValues ==
    {Str(t) : t \in Texts}
    \cup {[type |-> "int", val |-> n] : n \in -MaxNegative..MaxInt}
    \cup {[type |-> "bool", val |-> b] : b \in BOOLEAN}
    \cup {[type |-> "float", val |-> <<w, d>>] : w \in {-3, 0, 12}, d \in {0, 5}}
    \cup {[type |-> ty, val |-> << >>] : ty \in {"list", "NoneType", "bytes", "dict", "tuple"}}

\* a call of _stringifyText(v) that has not run yet
InitCoerce ==
    /\ env = BareHost
    /\ copy = lazy_load_stub_copy
    /\ paste = lazy_load_stub_paste
    /\ initCount = 0
    /\ imported = {}
    /\ clipboard = NoData
    /\ primary = NoData
    /\ last \in {[Call("_stringifyText", v, "none", "") EXCEPT !.exc = "pending"] :
                   v \in CoerceValues}
    /\ nat = Idle
    /\ now = 0
    /\ cbHolder = "free"
    /\ liveWindows = 0
    /\ wait = NoWait
    /\ thr = [t \in Threads |-> NoThread]

\* lines 97-102: the call runs.
StringifyText ==
    /\ last.op = "_stringifyText"
    /\ last.exc = "pending"
    /\ \E s \in {_stringifyText(last.v)} :
         last' = [last EXCEPT !.exc = s.exc,
                              !.ret = IF s.exc = "none" THEN Str(s.text) ELSE None]
    /\ UNCHANGED <<env, wait, thr, dispatchVars, osVars, natVars>>

SpecCoerce == InitCoerce /\ [][StringifyText]_vars

(***************************************************************************)
(* Text Coercion: C11 (checked under SpecCoerce).                          *)
(***************************************************************************)
IsDigit(c) == CodePoint(c) \in 48..57

\* the number a sequence of decimal digits denotes
RECURSIVE DigitsValue(_)
DigitsValue(t) ==
    IF t = << >> THEN 0
    ELSE 10 * DigitsValue(SubSeq(t, 1, Len(t) - 1)) + (CodePoint(t[Len(t)]) - 48)

\* a decimal numeral without sign: digits, no leading zero except "0" itself
IsNumeral(t) ==
    /\ t # << >>
    /\ \A k \in 1..Len(t) : IsDigit(t[k])
    /\ Len(t) > 1 => t[1] # "0"

\* t is the decimal form of the integer n
IsDecimalOf(t, n) ==
    IF n < 0
    THEN /\ Len(t) > 1
         /\ t[1] = "-"
         /\ IsNumeral(Tail(t))
         /\ DigitsValue(Tail(t)) = -n
    ELSE IsNumeral(t) /\ DigitsValue(t) = n

\* t is the canonical text of the value v of an accepted type
IsCanonicalText(t, v) ==
    CASE v.type = "str" -> t = v.val
      [] v.type = "int" -> IsDecimalOf(t, v.val)
      [] v.type = "bool" -> t = (IF v.val THEN <<"T", "r", "u", "e">>
                                 ELSE <<"F", "a", "l", "s", "e">>)
      [] v.type = "float" ->
            \E k \in 1..Len(t) :
               /\ t[k] = "."
               /\ IsDecimalOf(SubSeq(t, 1, k - 1), v.val[1])
               /\ IsNumeral(SubSeq(t, k + 1, Len(t)))
               /\ DigitsValue(SubSeq(t, k + 1, Len(t))) = v.val[2]

IsText(r) == r.type = "str" /\ \A k \in 1..Len(r.val) : r.val[k] \in Alphabet

\* C11: _stringifyText returns the canonical text of a str, int, float or
\* bool value, raises PyperclipException naming the value's type for a value
\* of any other type, and returns nothing but a text.
C11_CoercionTotalOnAcceptedTypes ==
    (last.op = "_stringifyText" /\ last.exc # "pending") =>
        /\ IF last.v.type \in {"str", "int", "float", "bool"}
           THEN /\ last.exc = "none"
                /\ IsCanonicalText(last.ret.val, last.v)
           ELSE /\ last.exc = "PyperclipException:not " \o last.v.type
                /\ last.ret = None
        /\ last.exc = "none" => IsText(last.ret)

\* the integer -12 has been coerced to the text "-12"
C11_Witness ==
    /\ last.op = "_stringifyText"
    /\ last.v = [type |-> "int", val |-> -12]
    /\ last.exc = "none"
    /\ last.ret = Str(<<"-", "1", "2">>)


(***************************************************************************)
(* Text Coercion in the backends' copy functions: C12 (checked under Spec).*)
(***************************************************************************)
\* the call copy(v) / copy(v, primary=...) reaches the body of the function
\* bound to `copy`
EntersCopyBody(sel) ==
    /\ copy # lazy_load_stub_copy
    /\ sel = "none" \/ HasPrimaryParameter(copy.backend)

\* what a copy of a rejected value must do: raise the coercion error, start
\* no process, make no OS call, begin no native operation, change no buffer
RefusedBeforeAnyEffect(v) ==
    /\ last'.exc = "PyperclipException:not " \o v.type
    /\ last'.launches = << >>
    /\ last'.oscalls = << >>
    /\ last'.attempts = 0
    /\ UNCHANGED <<osVars, natVars>>

RoundTripTexts == {<< >>, <<"a">>, <<"a", "\n">>, <<"a", "\n", "b">>, <<"e-acute">>}

\* a host for every backend, with the backend's helper programs present
BackendHosts ==
    {WindowsHost, XselHost, PyobjcHost, PbcopyHost, WslHost, CygwinHost, GnomeHost, KdeHost,
     WaylandHost, QtHost}

SpecBackend ==
    /\ InitIn(BackendHosts)
    /\ [][\/ \E name \in BackendNames : set_clipboard(name)
          \/ \E t \in RoundTripTexts, sel \in {"none", "true"} : Copy(Str(t), sel)
          \/ \E sel \in {"none", "true"} : Paste(sel)
          \/ NatStep]_vars

(***************************************************************************)
(* Round trip and clear: C13, C14 (checked under SpecBackend).             *)
(***************************************************************************)
\* paste(sel) is called right after the bound backend's copy(v, sel) returned
PasteRightAfterCopy(sel) ==
    /\ last.op = "copy"
    /\ last.exc = "none"
    /\ last.sel = sel
    /\ last.target = copy
    /\ paste.backend = copy.backend
    /\ copy.backend # "windows"
    /\ Paste(sel)

\* C13: on every backend served by a helper program, a file or a toolkit,
\* paste() right after a copy(text) that returned returns text.
C13_RoundTrip ==
    [][\A sel \in Selections :
          PasteRightAfterCopy(sel) =>
              (last'.exc = "none" /\ last'.ret = Str(PyStr(last.v)))]_vars

\* C14: paste() right after a copy("") that returned returns "", except on
\* /dev/clipboard, where copy("") changes nothing and paste() returns what
\* the clipboard held.
C14_ClearSemantics ==
    [][/\ \A sel \in Selections :
             (PasteRightAfterCopy(sel) /\ PyStr(last.v) = << >>) =>
                 /\ last'.exc = "none"
                 /\ last'.ret = Str(IF copy.backend = "dev_clipboard"
                                    THEN BufText(clipboard) ELSE << >>)
       /\ (/\ Copy(Str(<< >>), "none")
           /\ copy.backend = "dev_clipboard"
           /\ last'.exc = "none") => UNCHANGED osVars]_vars


(***************************************************************************)
(* What paste returns: C15 (checked under SpecBackend).                    *)
(***************************************************************************)
\* exceptions that report a missing helper, file or module, a wrong call or
\* a failed OS call, not an empty clipboard
NotAboutEmptiness(exc) ==
    exc \in {"FileNotFoundError", "OSError", "NameError", "TypeError",
             "PyperclipWindowsException:Error calling OpenClipboard",
             "PyperclipWindowsException:Error calling GetClipboardData",
             "PyperclipWindowsException:Error calling GlobalLock",
             "PyperclipWindowsException:Error calling GlobalUnlock",
             "PyperclipWindowsException:Error calling CloseClipboard"}

\* C15: a paste that returns, on a backend other than ClipboardUnavailable,
\* returns a text and never None; and a paste from a buffer that holds no
\* text data returns "" instead of raising or returning None.
C15_PasteReturnsText ==
    (/\ last.op = "paste"
     /\ last.exc # "pending"
     /\ last.target.backend \notin {"no", "stub", "none"}) =>
        /\ last.exc = "none" => IsText(last.ret)
        /\ (/\ Host[Buffer(last.sel = "true")] = NoData
            /\ ~NotAboutEmptiness(last.exc)) => (last.exc = "none" /\ last.ret = Str(<< >>))


(***************************************************************************)
(* waitForPaste and waitForNewPaste (lines 676-711).  The calling thread   *)
(* is inside the wait call; other applications change the clipboard        *)
(* between its steps.  Time passes in time.sleep(0.01) only, 10 ms a time. *)
(***************************************************************************)
PollIntervalMs == 10

\* timeout=None, the default of both functions
NoTimeout == -1

\* the timeout argument in ms: not given, 0, 20 and 25
Timeouts == {NoTimeout, 0, 20, 25}

\* the clock value up to which a wait call is followed
MaxClockMs == 60

\* the loop's test: lines 686 and 706
PollEnds_on_any_text(fn, currentText, originalText) == currentText # Str(<< >>)

PollEnds(fn, currentText, originalText) ==
    IF fn = "waitForPaste" THEN currentText # Str(<< >>) ELSE currentText # originalText

\* paste() called from inside a wait function
PasteFromWait(fn) ==
    LET m == [Call(fn, None, "none", "") EXCEPT !.wasStub = (paste = lazy_load_stub_paste)] IN
    IF paste = lazy_load_stub_paste
    THEN lazy_load_stub_paste_body(m)
    ELSE InvokePaste(paste, imported, "none", m) /\ UNCHANGED dispatchVars

WaitEnded(exc, ret) == [wait EXCEPT !.pc = "idle", !.exc = exc, !.ret = ret]

\* lines 683-684: startTime = time.time()
waitForPaste(timeout) ==
    /\ ApiIdle
    /\ wait.pc = "idle"
    /\ env.os_name # "nt"
    /\ wait' = [NoWait EXCEPT !.pc = "poll", !.fn = "waitForPaste", !.timeout = timeout]
    /\ UNCHANGED <<env, thr, dispatchVars, osVars, last, natVars>>

\* lines 702-704: startTime = time.time(); originalText = paste()
waitForNewPaste(timeout) ==
    /\ ApiIdle
    /\ wait.pc = "idle"
    /\ env.os_name # "nt"
    /\ PasteFromWait("waitForNewPaste")
    /\ wait' = IF last'.exc # "none"
               THEN [NoWait EXCEPT !.fn = "waitForNewPaste", !.timeout = timeout,
                                   !.exc = last'.exc]
               ELSE [NoWait EXCEPT !.pc = "poll", !.fn = "waitForNewPaste",
                                   !.timeout = timeout, !.originalText = last'.ret]
    /\ UNCHANGED <<env, thr>>

\* lines 685-686 and 705-706: one paste() and the test of what it returned
WaitPoll ==
    /\ wait.pc = "poll"
    /\ PasteFromWait(wait.fn)
    /\ wait' = IF last'.exc # "none" THEN WaitEnded(last'.exc, None)
               ELSE IF PollEnds(wait.fn, last'.ret, wait.originalText)
               THEN WaitEnded("none", last'.ret)
               ELSE [wait EXCEPT !.pc = "sleep", !.seen = Append(@, last'.ret)]
    /\ UNCHANGED <<env, thr>>

\* lines 687-690 and 707-710: time.sleep(0.01), then the test of the timeout
WaitSleep ==
    /\ wait.pc = "sleep"
    /\ wait.clock < MaxClockMs
    /\ LET t == wait.clock + PollIntervalMs IN
       wait' = IF wait.timeout # NoTimeout /\ t > wait.startTime + wait.timeout
               THEN [wait EXCEPT !.pc = "idle", !.clock = t,
                                 !.exc = "PyperclipTimeoutException"]
               ELSE [wait EXCEPT !.pc = "poll", !.clock = t]
    /\ UNCHANGED <<env, thr, dispatchVars, osVars, last, natVars>>

\* another application puts a text on the clipboard, or empties it
OtherCopy(t) ==
    /\ clipboard' = t
    /\ UNCHANGED <<env, wait, thr, dispatchVars, primary, last, natVars>>

OtherEmpty ==
    /\ clipboard' = NoData
    /\ UNCHANGED <<env, wait, thr, dispatchVars, primary, last, natVars>>

\* hosts whose paste returns a text, returns None, raises on an empty
\* clipboard, and is ClipboardUnavailable
SpecWait ==
    /\ InitIn({XclipHost, PbcopyHost, PyobjcHost, GnomeHost, BareHost})
    /\ [][\/ \E timeout \in Timeouts : waitForPaste(timeout)
          \/ \E timeout \in Timeouts : waitForNewPaste(timeout)
          \/ WaitPoll
          \/ WaitSleep
          \/ \E t \in {<<"a">>, <<"b">>} : OtherCopy(t)
          \/ OtherEmpty]_vars


(***************************************************************************)
(* The wait functions: C16, C17 (checked under SpecWait).                  *)
(***************************************************************************)
WaitReturned == wait.pc = "idle" /\ wait.fn # "none" /\ wait.exc = "none"

TimedOut == wait.pc = "idle" /\ wait.exc = "PyperclipTimeoutException"

\* C16: waitForNewPaste goes on while its polls read the text it read at the
\* start, returns the first polled value that differs from it, and raises
\* PyperclipTimeoutException, instead of polling again, once a given timeout
\* has passed.
C16_WaitForNewPasteReturnsADifferentValue ==
    /\ [](wait.fn = "waitForNewPaste" =>
            /\ \A k \in 1..Len(wait.seen) : wait.seen[k] = wait.originalText
            /\ WaitReturned =>
                  /\ wait.ret # wait.originalText
                  /\ wait.timeout = NoTimeout \/ wait.clock <= wait.startTime + wait.timeout
            /\ TimedOut =>
                  /\ wait.timeout # NoTimeout
                  /\ wait.clock > wait.startTime + wait.timeout)
    /\ [][(WaitPoll /\ wait.fn = "waitForNewPaste" /\ last'.exc = "none") =>
             IF last'.ret = wait.originalText
             THEN wait'.pc = "sleep"
             ELSE wait'.pc = "idle" /\ wait'.exc = "none" /\ wait'.ret = last'.ret]_vars
    /\ [][(/\ WaitSleep
           /\ wait.fn = "waitForNewPaste"
           /\ wait.timeout # NoTimeout
           /\ wait'.clock > wait.startTime + wait.timeout) => TimedOut']_vars

\* waitForNewPaste, started on "a", saw "a" three times and returned "b"
C16_Witness ==
    /\ wait.fn = "waitForNewPaste"
    /\ WaitReturned
    /\ wait.originalText = Str(<<"a">>)
    /\ wait.seen = <<Str(<<"a">>), Str(<<"a">>), Str(<<"a">>)>>
    /\ wait.ret = Str(<<"b">>)

\* C17: waitForPaste polls every 10 ms and returns the first non-empty text
\* it reads; with a timeout it raises PyperclipTimeoutException after the
\* timeout has passed and no later than one interval after it; without one
\* it never times out; an exception of paste() leaves the function as it is.
C17_WaitForPasteReturnsNonEmptyText ==
    /\ [](wait.fn = "waitForPaste" =>
            /\ \A k \in 1..Len(wait.seen) : wait.seen[k] = Str(<< >>)
            /\ WaitReturned => (IsText(wait.ret) /\ wait.ret.val # << >>)
            /\ TimedOut =>
                  /\ wait.timeout # NoTimeout
                  /\ wait.clock > wait.startTime + wait.timeout
                  /\ wait.clock <= wait.startTime + wait.timeout + PollIntervalMs)
    /\ [][(WaitPoll /\ wait.fn = "waitForPaste") =>
             /\ last'.exc # "none" => (wait'.pc = "idle" /\ wait'.exc = last'.exc)
             /\ (last'.exc = "none" /\ last'.ret = Str(<< >>)) => wait'.pc = "sleep"]_vars
    /\ [][(WaitSleep /\ wait.fn = "waitForPaste") =>
             /\ wait'.clock = wait.clock + PollIntervalMs
             /\ wait.timeout = NoTimeout => wait'.pc = "poll"]_vars


(***************************************************************************)
(* The selection argument: C18 (checked under Spec).                       *)
(***************************************************************************)
\* the last launch of the call names the primary selection
LaunchSelectsPrimary ==
    LET argv == last.launches[Len(last.launches)].argv IN
    \E k \in 1..Len(argv) : argv[k] \in {"p", "-p"}

\* C18: copy and paste take the selection argument whatever is bound to
\* them, the stubs included: the call is never refused for passing it, and
\* on xclip, xsel and wl-clipboard primary=True addresses the primary
\* selection.
C18_SelectionArgumentAccepted ==
    (last.op \in {"copy", "paste"} /\ last.sel # "none" /\ last.exc # "pending") =>
        /\ last.exc # "TypeError"
        /\ (/\ HasPrimaryParameter(last.target.backend)
            /\ last.exc = "none") => (LaunchSelectsPrimary <=> last.sel = "true")


(***************************************************************************)
(* The sequence of a native operation: C19 (checked under SpecNative).     *)
(* The states of the claim are read off the position of the operation:     *)
(*   Idle                   idle                                           *)
(*   (entering window())    CreateWindowExA                                *)
(*   WindowAcquired /                                                      *)
(*   ClipboardOpenPending   OpenClipboard, sleep                           *)
(*   ClipboardOpen          EmptyClipboard .. SetClipboardData,            *)
(*                          GetClipboardData .. GlobalUnlock               *)
(*   DataTransferred|Empty  CloseClipboard (about to be called)            *)
(*   ClipboardClosed        DestroyWindow (about to be called)             *)
(*   WindowReleased, Idle   idle                                           *)
(***************************************************************************)
CopySteps ==
    {<<"idle", "CreateWindowExA">>, <<"CreateWindowExA", "OpenClipboard">>,
     <<"CreateWindowExA", "idle">>,
     <<"OpenClipboard", "sleep">>, <<"sleep", "OpenClipboard">>,
     <<"OpenClipboard", "EmptyClipboard">>, <<"OpenClipboard", "DestroyWindow">>,
     <<"EmptyClipboard", "GlobalAlloc">>, <<"GlobalAlloc", "GlobalLock">>,
     <<"GlobalLock", "memmove">>, <<"memmove", "GlobalUnlock">>,
     <<"GlobalUnlock", "SetClipboardData">>,
     <<"EmptyClipboard", "CloseClipboard">>, <<"GlobalAlloc", "CloseClipboard">>,
     <<"GlobalLock", "CloseClipboard">>, <<"memmove", "CloseClipboard">>,
     <<"GlobalUnlock", "CloseClipboard">>, <<"SetClipboardData", "CloseClipboard">>,
     <<"CloseClipboard", "DestroyWindow">>, <<"DestroyWindow", "idle">>}

PasteSteps ==
    {<<"idle", "OpenClipboard">>,
     <<"OpenClipboard", "sleep">>, <<"sleep", "OpenClipboard">>,
     <<"OpenClipboard", "GetClipboardData">>, <<"OpenClipboard", "idle">>,
     <<"GetClipboardData", "GlobalLock">>, <<"GlobalLock", "GlobalUnlock">>,
     <<"GetClipboardData", "CloseClipboard">>, <<"GlobalLock", "CloseClipboard">>,
     <<"GlobalUnlock", "CloseClipboard">>,
     <<"CloseClipboard", "idle">>}

\* the operation is inside its `with window()` block
InWindowScope == InLog("CreateWindowExA") /\ ~InLog("DestroyWindow") /\ nat.pc # "idle"

\* the operation the step belongs to
StepOp == IF nat.pc = "idle" THEN nat'.op ELSE nat.op

WrappedCalls ==
    {"CreateWindowExA", "DestroyWindow", "CloseClipboard", "EmptyClipboard",
     "GetClipboardData", "SetClipboardData", "GlobalAlloc", "GlobalLock", "GlobalUnlock",
     "wcslen"}

OsCall(ret, oserr, errno) == [type |-> "oscall", val |-> <<ret, oserr, errno>>]

\* a wrapped call whose function has returned, before line 338
InitChecked ==
    /\ env = WindowsHost
    /\ copy = lazy_load_stub_copy
    /\ paste = lazy_load_stub_paste
    /\ initCount = 0
    /\ imported = {}
    /\ clipboard = NoData
    /\ primary = NoData
    /\ last \in {[Call("CheckedCall", OsCall(ret, oserr, errno), "none", f)
                    EXCEPT !.exc = "pending"] :
                   f \in WrappedCalls, ret \in {0, 1}, oserr \in Errnos, errno \in Errnos}
    /\ nat = Idle
    /\ now = 0
    /\ cbHolder = "free"
    /\ liveWindows = 0
    /\ wait = NoWait
    /\ thr = [t \in Threads |-> NoThread]

\* lines 338-340: the test, then raise or return ret
CheckedCall_call ==
    /\ last.op = "CheckedCall"
    /\ last.exc = "pending"
    /\ \E x \in {CheckedCall(last.name, last.v.val[1], last.v.val[3])} :
         last' = [last EXCEPT !.exc = x,
                              !.ret = IF x = "none"
                                      THEN [type |-> "int", val |-> last.v.val[1]]
                                      ELSE None]
    /\ UNCHANGED <<env, wait, thr, dispatchVars, osVars, natVars>>

SpecChecked == InitChecked /\ [][CheckedCall_call]_vars

(***************************************************************************)
(* Wrapped OS calls: C20 (checked under SpecChecked).                      *)
(***************************************************************************)
\* C20: a wrapped call raises the error naming the call exactly when the
\* call returned 0 and the OS error code of the call is not 0; otherwise it
\* gives the caller what the call returned.
C20_RaisesIffZeroReturnAndOsError ==
    (last.op = "CheckedCall" /\ last.exc # "pending") =>
        LET ret == last.v.val[1]
            oserr == last.v.val[2]
        IN  IF ret = 0 /\ oserr # 0
            THEN last.exc = "PyperclipWindowsException:Error calling " \o last.name
            ELSE last.exc = "none" /\ last.ret = [type |-> "int", val |-> ret]

(***************************************************************************)
(* The native write alone: texts of no, one and two characters, one of     *)
(* them beyond U+FFFF, copied on the Windows host while another            *)
(* application opens and closes the clipboard.                             *)
(***************************************************************************)
WriteTexts == {<< >>, <<"a">>, <<"a", "grin">>}

SpecWrite ==
    /\ InitIn({WindowsHost})
    /\ [][\/ \E t \in WriteTexts : Copy(Str(t), "none")
          \/ Paste("none")
          \/ NatStep
          \/ NatSleep
          \/ OtherOpenClipboard
          \/ OtherCloseClipboard]_vars

(***************************************************************************)
(* The native write: C21 (checked under SpecWrite).                        *)
(***************************************************************************)
\* the length of a text in UTF-16 code units
RECURSIVE Utf16Units(_)
Utf16Units(t) ==
    IF t = << >> THEN 0
    ELSE (IF CodePoint(Head(t)) > 65535 THEN 2 ELSE 1) + Utf16Units(Tail(t))

\* the calls made between opening the clipboard and closing it
InsideScope(c) ==
    c \notin {"CreateWindowExA", "OpenClipboard", "CloseClipboard", "DestroyWindow"}

WriteOrder(text) ==
    IF text = << >> THEN <<"EmptyClipboard">>
    ELSE <<"EmptyClipboard", "GlobalAlloc", "GlobalLock", "memmove", "GlobalUnlock",
           "SetClipboardData">>

\* What a native copy has called inside the open scope is a beginning of
\* the write order of its text, and all of it once the copy has returned.
WriteInOrder ==
    last.op = "copy" /\ last.target.backend = "windows" =>
        LET text == _stringifyText(last.v).text
            scope == SelectSeq(last.oscalls, InsideScope)
        IN  /\ Len(scope) <= Len(WriteOrder(text))
            /\ scope = SubSeq(WriteOrder(text), 1, Len(scope))
            /\ (nat.pc = "idle" /\ last.exc = "none" => scope = WriteOrder(text))

\* the block about to be handed over: movable, of the size of the text's
\* units and one terminator, holding the text and the terminator, unlocked
BlockReady ==
    LET n == Utf16Units(nat.text) IN
    /\ nat.handle # 0
    /\ nat.flags = GMEM_MOVEABLE
    /\ nat.size = (n + 1) * sizeof_c_wchar
    /\ Len(nat.data) = n + 1
    /\ nat.data[n + 1] = 0
    /\ \A k \in 1..n : nat.data[k] # 0
    /\ (n = Len(nat.text) => \A k \in 1..n : nat.data[k] = CodePoint(nat.text[k]))
    /\ nat.locked = 0

\* C21: a native write inside the open scope calls EmptyClipboard first;
\* then, if and only if the coerced text is not empty, it allocates a
\* movable block of (UTF-16 units + 1) units, locks it, copies the text with
\* its terminator, unlocks it and hands the handle over as Unicode text,
\* once; an empty text allocates nothing and sets no data; no other call
\* (none that frees the block) is made, and the block handed over is not
\* locked.
C21_NativeWriteSequence ==
    [][/\ WriteInOrder'
       /\ (last'.oscalls = Append(last.oscalls, "SetClipboardData") =>
             /\ BlockReady
             /\ (nat'.exc = "none" => nat'.format = CF_UNICODETEXT))]_vars

\* a text of three UTF-16 units was handed over in a block of eight bytes
C21_Witness ==
    /\ nat.pc = "CloseClipboard"
    /\ nat.text = <<"a", "grin">>
    /\ nat.format = CF_UNICODETEXT
    /\ nat.size = 8
    /\ nat.data = <<97, 55357, 56832, 0>>
    /\ clipboard = <<"a", "grin">>

\* the copy of an empty text has returned having only emptied the clipboard
C21_WitnessEmpty ==
    /\ last.op = "copy"
    /\ last.v = Str(<< >>)
    /\ nat.pc = "idle"
    /\ last.exc = "none"
    /\ last.oscalls = <<"CreateWindowExA", "OpenClipboard", "EmptyClipboard",
                        "CloseClipboard", "DestroyWindow">>

(***************************************************************************)
(* Two threads.  The statement `copy, paste = ...` (lines 640, 662, 619)   *)
(* is two stores to the module's globals, `copy` first; no lock is held,   *)
(* so another thread may run between the initializer's return and the      *)
(* first store, and between the two stores.                                *)
(***************************************************************************)
\* lines 639-640 / 661-662 up to the assignment: thread t calls copy(v) or
\* paste() while the global it looks up is the stub, and determine_clipboard
\* returns a pair to it.
ThreadEnterStub(t, op, v) ==
    /\ thr[t].pc = "idle"
    /\ IF op = "copy" THEN copy = lazy_load_stub_copy ELSE paste = lazy_load_stub_paste
    /\ initCount < MaxInits
    /\ \E r \in {Resolution} :
         LET m == Resolved([Call(op, v, "none", "") EXCEPT !.wasStub = TRUE], r) IN
         /\ imported' = imported \cup r.imports
         /\ IF r.exc # "none"
            THEN /\ last' = [m EXCEPT !.exc = r.exc]
                 /\ UNCHANGED <<initCount, thr>>
            ELSE /\ initCount' = initCount + 1
                 /\ thr' = [thr EXCEPT ![t] =
                              [pc |-> "store_copy", m |-> m,
                               fns |-> <<Closure("copy", r.backend, initCount + 1),
                                         Closure("paste", r.backend, initCount + 1)>>]]
                 /\ last' = last
    /\ UNCHANGED <<env, wait, copy, paste, osVars, natVars>>

\* lines 598-619 up to the assignment: thread t calls set_clipboard(name).
ThreadSetClipboard(t, name) ==
    /\ thr[t].pc = "idle"
    /\ LET m == [Call("set_clipboard", None, "none", name)
                   EXCEPT !.wasStub = (copy = lazy_load_stub_copy)] IN
       IF name \notin BackendNames
       THEN /\ last' = [m EXCEPT !.exc = "ValueError"]
            /\ UNCHANGED <<initCount, thr>>
       ELSE LET i == clipboard_types(name, env) IN
            IF i.exc # "none"
            THEN /\ last' = [m EXCEPT !.exc = i.exc, !.inits = <<name>>]
                 /\ UNCHANGED <<initCount, thr>>
            ELSE /\ initCount < MaxInits
                 /\ initCount' = initCount + 1
                 /\ thr' = [thr EXCEPT ![t] =
                              [pc |-> "store_copy",
                               m |-> [m EXCEPT !.inits = <<name>>, !.launches = i.launches],
                               fns |-> <<Closure("copy", name, initCount + 1),
                                         Closure("paste", name, initCount + 1)>>]]
                 /\ last' = last
    /\ UNCHANGED <<env, wait, copy, paste, imported, osVars, natVars>>

\* the first store of the assignment: the global `copy`
ThreadStoreCopy(t) ==
    /\ thr[t].pc = "store_copy"
    /\ copy' = thr[t].fns[1]
    /\ thr' = [thr EXCEPT ![t].pc = "store_paste"]
    /\ UNCHANGED <<env, wait, paste, initCount, imported, osVars, last, natVars>>

\* the second store: the global `paste`; set_clipboard returns after it
ThreadStorePaste(t) ==
    /\ thr[t].pc = "store_paste"
    /\ paste' = thr[t].fns[2]
    /\ IF thr[t].m.op = "set_clipboard"
       THEN /\ thr' = [thr EXCEPT ![t] = NoThread]
            /\ last' = [thr[t].m EXCEPT !.target = thr[t].fns[1]]
       ELSE /\ thr' = [thr EXCEPT ![t].pc = "forward"]
            /\ last' = last
    /\ UNCHANGED <<env, wait, copy, initCount, imported, osVars, natVars>>

\* lines 641 / 663: `return copy(text)`, `return paste()`: the global is
\* looked up again and what it is bound to now is called.
ThreadForward(t) ==
    /\ thr[t].pc = "forward"
    /\ IF thr[t].m.op = "copy"
       THEN InvokeCopy(copy, imported, thr[t].m.v, "none", thr[t].m)
       ELSE InvokePaste(paste, imported, "none", thr[t].m)
    /\ thr' = [thr EXCEPT ![t] = NoThread]
    /\ UNCHANGED <<env, wait, dispatchVars>>

\* two threads on a host with xclip and on a Mac with pbcopy, each making
\* first calls and overrides
SpecThreads ==
    /\ InitIn({XclipHost, PbcopyHost})
    /\ [][\E t \in Threads :
            \/ \E v \in Values : ThreadEnterStub(t, "copy", v)
            \/ ThreadEnterStub(t, "paste", None)
            \/ \E name \in SetClipboardArgs : ThreadSetClipboard(t, name)
            \/ ThreadStoreCopy(t)
            \/ ThreadStorePaste(t)
            \/ ThreadForward(t)]_vars

(***************************************************************************)
(* The matched pair: C22 (checked under SpecThreads).                      *)
(***************************************************************************)
\* copy and paste are the two stubs, or the two functions one initializer
\* call returned
MatchedPair ==
    \/ copy = lazy_load_stub_copy /\ paste = lazy_load_stub_paste
    \/ /\ copy.role = "copy"
       /\ paste.role = "paste"
       /\ copy.id > 0
       /\ copy.id = paste.id
       /\ copy.backend = paste.backend

\* C22: whenever no thread is inside a rebinding, copy and paste form a
\* matched pair: both stubs, or both functions returned by one initializer
\* call.
C22_MatchedPair == (\A t \in Threads : thr[t].pc = "idle") => MatchedPair

(***************************************************************************)
(* copy and paste alone, from the module as loaded: on a host where        *)
(* `import qtpy` raises an exception that is not an ImportError, and on    *)
(* the hosts above whose backend serves a call in one step.                *)
(***************************************************************************)
SpecFirstCall ==
    /\ InitIn({[BareHost EXCEPT !.qtpy_exc = "PythonQtError"]}
                \cup (Hosts \ {WindowsHost}))
    /\ [][\/ \E v \in Values : Copy(v, "none")
          \/ Paste("none")]_vars

(***************************************************************************)
(* Failure atomicity of the first call: C23 (checked under SpecFirstCall). *)
(***************************************************************************)
\* the entry point the step's call went through was bound to its stub
ThroughStub ==
    IF last'.op = "copy" THEN copy = lazy_load_stub_copy ELSE paste = lazy_load_stub_paste

BothStubs == copy = lazy_load_stub_copy /\ paste = lazy_load_stub_paste

\* copy and paste are the pair of initializer call k of backend b
BoundTo(b, k) == copy = Closure("copy", b, k) /\ paste = Closure("paste", b, k)

\* C23: a copy or paste call through a stub runs resolution; if resolution
\* raises, both stubs stay bound (so the next call runs resolution again);
\* if resolution returns, both entry points are bound to the pair it
\* returned whether or not the forwarded call then fails.  A call through a
\* bound entry point runs no resolution and rebinds nothing.
C23_FirstCallFailureAtomicity ==
    [][last'.op \in {"copy", "paste"} =>
         IF ThroughStub
         THEN /\ last'.resolved = 1
              /\ IF last'.inits = << >>
                 THEN last'.exc # "none" /\ BothStubs' /\ initCount' = initCount
                 ELSE /\ copy' = Closure("copy", last'.inits[1], initCount + 1)
                      /\ paste' = Closure("paste", last'.inits[1], initCount + 1)
                      /\ last'.target = (IF last'.op = "copy" THEN copy' ELSE paste')
         ELSE /\ last'.resolved = 0
              /\ last'.inits = << >>
              /\ UNCHANGED <<copy, paste, initCount>>]_vars

\* resolution raised in a first copy: both stubs are still bound
C23_Witness ==
    /\ last.op = "copy"
    /\ last.wasStub
    /\ last.resolved = 1
    /\ last.exc = "PythonQtError"
    /\ BothStubs

\* resolution returned and the forwarded first copy failed on the value's
\* type: both entry points are bound
C23_WitnessForwardedCallFailed ==
    /\ last.op = "copy"
    /\ last.wasStub
    /\ last.resolved = 1
    /\ last.exc = "PyperclipException:not list"
    /\ BoundTo("xclip", 1)

C24_WitnessUnknownName ==
    /\ last.op = "set_clipboard"
    /\ last.name = "gtk"
    /\ last.exc = "ValueError"
    /\ BothStubs
====
